---- MODULE Spec2Model ----
(***************************************************************************)
(* C-OOP-Container: the chained hash table of hashmap.h and the growable   *)
(* array of vector.h (held in dome.c), as state machines.                  *)
(*                                                                         *)
(* The map is instantiated as HASHMAP_DEFINE(llong, int): keys are 64-bit  *)
(* integers, written <<parts[0], parts[1]>> as the two 32-bit ints of the  *)
(* union in Hashmap_hash_int64; values are ints.  Entries are heap cells   *)
(* named by their address (1..MaxEntries); NULL is the null pointer.       *)
(* The array is instantiated as VECTOR_DEFINE(int).                        *)
(***************************************************************************)
EXTENDS Integers, Sequences, FiniteSets, TLC

VARIABLES
    mpc,     \* map handle: "start" (not constructed), "live", "exited" (_Exit(-1) was called), "freed"
    map,     \* struct __Hashmap_K_V: [entries, size, capacity]
    heap,    \* the allocated struct HashmapEntry_K_V cells: address -> [key, value, hash, next]
    mlast,   \* history: the last map operation, its arguments and its result
    vpc,     \* array handle: "start" (not constructed), "live"
    vec,     \* struct _Vector_T: [data, size, capacity]
    vcount,  \* history: additions and removals since construction or the last clear; the constructor's capacity
    vlast,   \* history: the last array operation, its arguments and its result
    vit,     \* struct VectorIterator_T [index] of the caller, with the history of its next() calls
    mit,     \* struct HashmapIterator_K_V [index, entry] of the caller, with the history of its next() calls
    stream,  \* FILE* stream of the display call: the text of each fprintf, in order
    hlast    \* history: the last two keys handed to the default hash and equality of a key type

vars == <<mpc, map, heap, mlast, vpc, vec, vcount, vlast, vit, mit, stream, hlast>>
mapVars == <<mpc, map, heap, mlast>>
vecVars == <<vpc, vec, vcount, vlast>>
iterVars == <<vit, mit>>
callerVars == <<vit, mit, stream, hlast>>

(***************************************************************************)
(* Bounds and inputs                                                       *)
(***************************************************************************)
\* Number of heap cells malloc can hand out for entries.
MaxEntries == 3
\* Additions (push, successful insert) allowed since construction or the last clear.
MaxAdds == 4
\* Largest capacity handed to vector_new_with_capacity.
MaxVecCap == 3
\* Pushes of the scenario "initial capacity 10, push 11 integers".
ScenarioPushes == 11

\* Keys offered to the map: 0; 8 (same bucket as 0 up to capacity 8, other
\* hash); 2^32 + 1 (hash 0 as well: a full collision with key 0); 2^32 - 1
\* (parts[0] = -1: a negative hash).
Keys == {<<0, 0>>, <<8, 0>>, <<1, 1>>, <<-1, 0>>}
MapValues == {1, 2}
\* Capacities handed to hashmap_new_with_capacity.
MapCapInputs == (-1 .. 10) \cup {16}
\* Elements offered to the array.
Values == {1, 2}
\* Elements offered to an array that is displayed.
DisplayValues == {10, 20, 30, -7}

\* Byte strings handed to the text hash: "", "ab", "Aa" and "BB" (one hash),
\* a byte above 127, "zzzzz" and "zzzzzz" (the sixth z takes hash * 31 past
\* INT_MAX).
TextInputs ==
    {<<>>, <<97, 98>>, <<65, 97>>, <<66, 66>>, <<200>>, <<97, 200>>,
     <<122, 122, 122, 122, 122>>, <<122, 122, 122, 122, 122, 122>>}

\* Text pointers offered to the containers of text (typedef const char* cstr)
\* and the bytes each one points to, up to the terminating '\0': "ab" at two
\* addresses, "Aa" and "BB" (one hash), "" and "b".
TextPointers == {101, 102, 103, 104, 105, 106}
Memory == [p \in TextPointers |->
              CASE p = 101 -> <<97, 98>>
                [] p = 102 -> <<97, 98>>
                [] p = 103 -> <<65, 97>>
                [] p = 104 -> <<66, 66>>
                [] p = 105 -> <<>>
                [] p = 106 -> <<98>>]

NULL == 0
\* A slot malloc or realloc handed out and nothing was stored in (no element has this value).
Uninit == -1

(***************************************************************************)
(* int arithmetic: the bitwise operators on two's complement ints.  \div   *)
(* and % floor, so a \div 2 is an arithmetic right shift and a % 2 the low *)
(* bit; 0 and -1 are the ints with no bit and with every bit set.          *)
(***************************************************************************)
RECURSIVE IntAnd(_, _)
IntAnd(a, b) ==
    IF a = 0 \/ b = 0 THEN 0
    ELSE IF a = -1 THEN b
    ELSE IF b = -1 THEN a
    ELSE (a % 2) * (b % 2) + 2 * IntAnd(a \div 2, b \div 2)

RECURSIVE IntXor(_, _)
IntXor(a, b) ==
    IF a = 0 THEN b
    ELSE IF b = 0 THEN a
    ELSE IF a = -1 THEN (-b) - 1
    ELSE IF b = -1 THEN (-a) - 1
    ELSE (((a % 2) + (b % 2)) % 2) + 2 * IntXor(a \div 2, b \div 2)

(***************************************************************************)
(* fprintf conversions.  A 64-bit integer <<parts[0], parts[1]>> is split  *)
(* into four 16-bit limbs, most significant first, and divided by ten      *)
(* limb by limb to produce its decimal digits.                             *)
(***************************************************************************)
Limbs(key) ==
    <<(key[2] \div 65536) % 65536, key[2] % 65536,
      (key[1] \div 65536) % 65536, key[1] % 65536>>

\* The limbs of -x: every bit inverted, plus one.
Negate(limbs) ==
    LET inv == [i \in 1 .. 4 |-> 65535 - limbs[i]]
        c4 == inv[4] + 1
        c3 == inv[3] + (c4 \div 65536)
        c2 == inv[2] + (c3 \div 65536)
        c1 == inv[1] + (c2 \div 65536)
    IN <<c1 % 65536, c2 % 65536, c3 % 65536, c4 % 65536>>

\* Long division of the limbs by ten: the quotient's limbs and the remainder.
DivTen(limbs) ==
    LET r1 == limbs[1] % 10
        n2 == r1 * 65536 + limbs[2]
        n3 == (n2 % 10) * 65536 + limbs[3]
        n4 == (n3 % 10) * 65536 + limbs[4]
    IN [quot |-> <<limbs[1] \div 10, n2 \div 10, n3 \div 10, n4 \div 10>>, rem |-> n4 % 10]

Digit(d) == SubSeq("0123456789", d + 1, d + 1)

RECURSIVE Decimal(_)
Decimal(limbs) ==
    LET d == DivTen(limbs)
    IN IF d.quot = <<0, 0, 0, 0>>
       THEN Digit(d.rem)
       ELSE Decimal(d.quot) \o Digit(d.rem)

\* fprintf(stream, "%lld", e)
FormatInt64(key) ==
    IF key[2] < 0 THEN "-" \o Decimal(Negate(Limbs(key))) ELSE Decimal(Limbs(key))

\* fprintf(stream, "%d", e): the int is promoted with its sign
FormatInt(e) == FormatInt64(<<e, IF e < 0 THEN -1 ELSE 0>>)

(***************************************************************************)
(* Hash table engine                                                       *)
(***************************************************************************)
\* return u.parts[0] ^ u.parts[1];
Hashmap_hash_int64(key) == IntXor(key[1], key[2])

\* _Generic(key, long long: Hashmap_hash_int64(u.llval))
Hashmap_hash(key) == Hashmap_hash_int64(key)

\* _Generic(key1, default: u1.k == u2.k)
Hashmap_equals(key1, key2) == key1 = key2

\* An int of any magnitude below 2^36 or so, reduced to the 32 bits of an int.
WrapInt(hi, lo) ==
    ((((hi + (lo \div 65536)) + 32768) % 65536) - 32768) * 65536 + (lo % 65536)

\* hash * 31 + c in the width of int, on halves of 16 bits
HashStep(hash, c) == WrapInt((hash \div 65536) * 31, (hash % 65536) * 31 + c)

\* while (*str != '\0') { hash = hash * 31 + *str; str++; }
RECURSIVE HashBytes(_, _)
HashBytes(hash, str) ==
    IF str = <<>> THEN hash ELSE HashBytes(HashStep(hash, Head(str)), Tail(str))

\* Hashmap_hash_cstr(key): int hash = 0, then the loop over the bytes key points to
\* (the texts of Memory are short and of bytes below 128: no step overflows)
Hashmap_hash_cstr(key) == HashBytes(0, Memory[key])

\* *str in hash * 31 + *str: the byte as a char promoted to int, negative
\* from 128 on where char is signed
PromotedChar(byte, charSigned) == IF charSigned /\ byte >= 128 THEN byte - 256 ELSE byte
PromotedChars(str, charSigned) == [i \in DOMAIN str |-> PromotedChar(str[i], charSigned)]

\* Whether hash * 31 + c lies outside the range of int (signed overflow:
\* undefined behaviour), on halves of 16 bits
Overflows(hash, c) ==
    LET top == (hash \div 65536) * 31 + (((hash % 65536) * 31 + c) \div 65536)
    IN top < -32768 \/ top > 32767

\* Whether some step of the loop over str, started with hash, overflows.
RECURSIVE LoopOverflows(_, _)
LoopOverflows(hash, str) ==
    IF str = <<>> THEN FALSE
    ELSE Overflows(hash, Head(str)) \/ LoopOverflows(HashStep(hash, Head(str)), Tail(str))

\* The outcomes of Hashmap_hash_cstr on the bytes str: the value returned
\* and, where a step overflows, either the wrapped value (two's complement
\* arithmetic) or a trap (a build that traps on signed overflow).
HashOutcomes(str, charSigned) ==
    LET chars == PromotedChars(str, charSigned)
        returned == [trapped |-> FALSE, hash |-> HashBytes(0, chars)]
    IN IF LoopOverflows(0, chars)
       THEN {returned, [trapped |-> TRUE, hash |-> 0]}
       ELSE {returned}

\* strcmp(s1, s2): the difference of the first two bytes that differ, the
\* terminating '\0' included
RECURSIVE Strcmp(_, _)
Strcmp(s1, s2) ==
    IF s1 = <<>> \/ s2 = <<>>
    THEN (IF s1 = <<>> THEN 0 ELSE Head(s1)) - (IF s2 = <<>> THEN 0 ELSE Head(s2))
    ELSE IF Head(s1) # Head(s2) THEN Head(s1) - Head(s2)
    ELSE Strcmp(Tail(s1), Tail(s2))

\* HASHMAP_DEFINE(cstr, V): _Generic(key, const char*: Hashmap_hash_cstr(u.strval))
Hashmap_cstr_hash(key) == Hashmap_hash_cstr(key)

\* HASHMAP_DEFINE(cstr, V): _Generic(key1, const char*: strcmp(u1.strval, u2.strval) == 0)
Hashmap_cstr_equals(key1, key2) == Strcmp(Memory[key1], Memory[key2]) = 0

\* self->fns->hash(key) and self->fns->equals(key1, key2): fns is the table of
\* the instantiation the map was constructed by
Fns_hash(self, key) ==
    IF self.fns = "cstr_int" THEN Hashmap_cstr_hash(key) ELSE Hashmap_hash(key)
Fns_equals(self, key1, key2) ==
    IF self.fns = "cstr_int" THEN Hashmap_cstr_equals(key1, key2) ELSE Hashmap_equals(key1, key2)

(***************************************************************************)
(* The defaults of HASHMAP_DEFINE(K, V) for every key type K the _Generic  *)
(* selections name.  A key is written as its object representation: an int *)
(* for a type of at most 32 bits (for float the int sharing its bits), a   *)
(* pair <<parts[0], parts[1]>> for a type of 64 bits (for double the two   *)
(* halves of its bits, the sign in parts[1]), an address for const char*.  *)
(* long double is left out: its representation is wider than the 64 bits   *)
(* u.lfval reads.                                                          *)
(***************************************************************************)
INT_MIN == (-2147483647) - 1

NarrowTypes == {"bool", "char", "short", "unsigned char", "unsigned short"}
IntTypes == {"int", "unsigned int"}
LongTypes == {"long", "unsigned long"}
LongLongTypes == {"long long", "unsigned long long"}
KeyTypes ==
    NarrowTypes \cup IntTypes \cup LongTypes \cup LongLongTypes
        \cup {"float", "double", "const char*", "void*"}

\* sizeof(long) of the build
LongSizes == {4, 8}

\* sizeof(K) * CHAR_BIT of a type narrower than int
WidthOf(K) == IF K \in {"short", "unsigned short"} THEN 16 ELSE 8

\* The bytes of the union that u = {key} does not store to hold unspecified
\* values: the outcomes offered are "all zero" and "not zero".
Unspecified == {0, 1}

\* u.ival of a union whose member k, narrower than int, holds key
UnionIval(K, key, unspec) ==
    IF WidthOf(K) = 16 THEN (key % 65536) + unspec * 65536
    ELSE (key % 256) + unspec * 256

\* return u.parts[0] ^ u.parts[1];
Hashmap_hash_uint64(key) == IntXor(key[1], key[2])
Hashmap_hash_float64(key) == IntXor(key[1], key[2])
Hashmap_hash_pointer(key) == IntXor(key[1], key[2])

\* The bits of a float or of the upper half of a double, without the sign bit.
Magnitude(bits) == IF bits < 0 THEN (bits + 2147483647) + 1 ELSE bits

\* The infinities are 0x7F800000 and 0x7FF00000:00000000; above them, NaN.
FloatIsNaN(key) == Magnitude(key) > 2139095040
DoubleIsNaN(key) ==
    \/ Magnitude(key[2]) > 2146435072
    \/ Magnitude(key[2]) = 2146435072 /\ key[1] # 0

\* u1.k == u2.k on float and on double: NaN equals nothing, the two zeros
\* are equal, and otherwise the values are equal when the bits are
FloatEquals(key1, key2) ==
    /\ ~FloatIsNaN(key1) /\ ~FloatIsNaN(key2)
    /\ \/ key1 = key2
       \/ Magnitude(key1) = 0 /\ Magnitude(key2) = 0
DoubleEquals(key1, key2) ==
    /\ ~DoubleIsNaN(key1) /\ ~DoubleIsNaN(key2)
    /\ \/ key1 = key2
       \/ key1[1] = 0 /\ key2[1] = 0 /\ Magnitude(key1[2]) = 0 /\ Magnitude(key2[2]) = 0

\* Hashmap_K_V_hash(key): the _Generic selection on the type of key
Hashmap_K_V_hash(K, key, unspec, sizeofLong) ==
    CASE K \in NarrowTypes -> UnionIval(K, key, unspec)
      [] K \in IntTypes -> key
      [] K = "long" -> IF sizeofLong = 4 THEN key ELSE Hashmap_hash_int64(key)
      [] K \in {"long long"} -> Hashmap_hash_int64(key)
      [] K = "unsigned long" -> IF sizeofLong = 4 THEN key ELSE Hashmap_hash_uint64(key)
      [] K = "unsigned long long" -> Hashmap_hash_uint64(key)
      [] K = "float" -> key
      [] K = "double" -> Hashmap_hash_float64(key)
      [] K = "const char*" -> Hashmap_hash_cstr(key)
      [] OTHER -> Hashmap_hash_pointer(key)

\* Hashmap_K_V_equals(key1, key2): strcmp for const char*, otherwise ==
Hashmap_K_V_equals(K, key1, key2) ==
    CASE K = "const char*" -> Strcmp(Memory[key1], Memory[key2]) = 0
      [] K = "float" -> FloatEquals(key1, key2)
      [] K = "double" -> DoubleEquals(key1, key2)
      [] OTHER -> key1 = key2

\* Keys offered for each key type: for float and double +0.0, -0.0, 1.0 and
\* a NaN.
KeysOf(K, sizeofLong) ==
    CASE K = "bool" -> {0, 1}
      [] K \in {"char", "short"} -> {-1, 0, 65}
      [] K \in {"unsigned char", "unsigned short"} -> {0, 65, 255}
      [] K \in IntTypes -> {-1, 0, 65}
      [] K \in LongTypes -> IF sizeofLong = 4 THEN {-1, 0, 65} ELSE Keys
      [] K \in LongLongTypes -> Keys
      [] K = "float" -> {0, INT_MIN, 1065353216, 2143289344}
      [] K = "double" -> {<<0, 0>>, <<0, INT_MIN>>, <<0, 1072693248>>, <<0, 2146959360>>}
      [] K = "const char*" -> TextPointers
      [] OTHER -> {<<0, 0>>, <<4096, 0>>, <<4096, 1>>}

\* The capacity test on a test that only asks for a positive capacity.
CapacityRejected_PositiveOnly(capacity) == ~(capacity > 0)

\* !(_capacity > 0 && (_capacity & (_capacity - 1)) == 0)
CapacityRejected(capacity) ==
    ~(capacity > 0 /\ IntAnd(capacity, capacity - 1) = 0)

\* The growth test on a test that waits until the table is more than full.
NeedsResize_PastFull(self) == self.size > self.capacity

\* self->size >= self->capacity * __HASHMAP_LOAD_FACTOR, with the factor 0.75f
\* (both sides are exact in float for the capacities of the model)
NeedsResize(self) == 4 * self.size >= 3 * self.capacity

\* malloc of one entry: the lowest free address (first fit)
Malloc(h) == CHOOSE p \in 1 .. MaxEntries :
                 p \notin DOMAIN h /\ \A q \in 1 .. MaxEntries : q \notin DOMAIN h => p <= q

\* free(entry)
Free(h, entry) == [p \in (DOMAIN h) \ {entry} |-> h[p]]

\* Hashmap_K_V_new on a constructor that takes the capacity for the size.
Hashmap_new_Sized(capacity) ==
    [fns |-> "llong_int",
     entries |-> [i \in 0 .. capacity - 1 |-> NULL], size |-> capacity, capacity |-> capacity]

\* Hashmap_K_V_new: size 0, the given capacity, every bucket NULL
Hashmap_new(capacity) ==
    [fns |-> "llong_int",
     entries |-> [i \in 0 .. capacity - 1 |-> NULL], size |-> 0, capacity |-> capacity]

\* Hashmap_cstr_int_new: the same constructor of HASHMAP_DEFINE(cstr, int)
Hashmap_cstr_new(capacity) == [Hashmap_new(capacity) EXCEPT !.fns = "cstr_int"]

\* The relinking loops of resize: bucket i of old_entries, at entry.
RECURSIVE ResizeWalk(_, _, _, _, _)
ResizeWalk(old_entries, oldcap, st, i, entry) ==
    IF entry = NULL
    THEN IF i + 1 < oldcap
         THEN ResizeWalk(old_entries, oldcap, st, i + 1, old_entries[i + 1])
         ELSE st
    ELSE LET index == IntAnd(st.heap[entry].hash, st.map.capacity - 1)
             next_entry == st.heap[entry].next
             h2 == [st.heap EXCEPT ![entry].next = st.map.entries[index]]
             m2 == [st.map EXCEPT !.entries[index] = entry]
         IN ResizeWalk(old_entries, oldcap, [map |-> m2, heap |-> h2], i, next_entry)

\* Hashmap_K_V_resize on a resize that lost the entries behind each chain's head.
Hashmap_resize_HeadsOnly(self, h) ==
    LET cap2 == self.capacity * 2
        heads == {self.entries[i] : i \in 0 .. self.capacity - 1} \ {NULL}
        h2 == [p \in DOMAIN h |-> [h[p] EXCEPT !.next = NULL]]
        slot(j) == {p \in heads : IntAnd(h[p].hash, cap2 - 1) = j}
    IN [map |-> [fns |-> self.fns,
                 entries |-> [j \in 0 .. cap2 - 1 |->
                                 IF slot(j) = {} THEN NULL ELSE CHOOSE p \in slot(j) : TRUE],
                 size |-> self.size, capacity |-> cap2],
        heap |-> h2]

\* Hashmap_K_V_resize on a resize to twice the capacity plus one.
Hashmap_resize_TwicePlusOne(self, h) ==
    LET cap2 == self.capacity * 2 + 1
        m1 == [fns |-> self.fns, entries |-> [i \in 0 .. cap2 - 1 |-> NULL],
               size |-> self.size, capacity |-> cap2]
    IN ResizeWalk(self.entries, self.capacity, [map |-> m1, heap |-> h], 0, self.entries[0])

\* Hashmap_K_V_resize on a resize that copies every entry into a cell of its
\* own choice (the cells change places) and frees the old one.
Hashmap_resize_Reallocating(self, h) ==
    LET cap2 == self.capacity * 2
        m1 == [fns |-> self.fns, entries |-> [i \in 0 .. cap2 - 1 |-> NULL],
               size |-> self.size, capacity |-> cap2]
        r == ResizeWalk(self.entries, self.capacity, [map |-> m1, heap |-> h], 0, self.entries[0])
        top == CHOOSE q \in DOMAIN h : \A o \in DOMAIN h : o <= q
        moved(q) == IF q = NULL THEN NULL ELSE (top + 1) - q
        cells == IF DOMAIN h = {} THEN {} ELSE {moved(q) : q \in DOMAIN h}
    IN IF DOMAIN h = {} THEN r
       ELSE [map |-> [r.map EXCEPT !.entries = [j \in 0 .. cap2 - 1 |-> moved(r.map.entries[j])]],
             heap |-> [q \in cells |-> [r.heap[moved(q)] EXCEPT !.next = moved(@)]]]

\* Hashmap_K_V_resize on a resize that copies the old bucket array into the
\* lower half of the new one without rehashing.
Hashmap_resize_KeepBuckets(self, h) ==
    LET cap2 == self.capacity * 2
    IN [map |-> [fns |-> self.fns,
                 entries |-> [i \in 0 .. cap2 - 1 |->
                                 IF i < self.capacity THEN self.entries[i] ELSE NULL],
                 size |-> self.size, capacity |-> cap2],
        heap |-> h]

\* Hashmap_K_V_resize
Hashmap_resize(self, h) ==
    LET cap2 == self.capacity * 2
        m1 == [fns |-> self.fns, entries |-> [i \in 0 .. cap2 - 1 |-> NULL],
               size |-> self.size, capacity |-> cap2]
    IN ResizeWalk(self.entries, self.capacity, [map |-> m1, heap |-> h], 0, self.entries[0])

\* The scan of put on a loop that runs while entry->next != NULL: the last
\* entry of the chain is never compared.
RECURSIVE PutScan_SkipsLast(_, _, _, _, _, _)
PutScan_SkipsLast(self, h, entry, last_entry, hash, key) ==
    IF entry = NULL THEN [entry |-> NULL, last_entry |-> last_entry]
    ELSE IF h[entry].next = NULL THEN [entry |-> NULL, last_entry |-> entry]
    ELSE IF h[entry].hash = hash /\ Fns_equals(self, h[entry].key, key)
         THEN [entry |-> entry, last_entry |-> last_entry]
         ELSE PutScan_SkipsLast(self, h, h[entry].next, entry, hash, key)

\* The scan of put: stops at the entry with the cached hash and an equal key.
RECURSIVE PutScan(_, _, _, _, _, _)
PutScan(self, h, entry, last_entry, hash, key) ==
    IF entry = NULL THEN [entry |-> NULL, last_entry |-> last_entry]
    ELSE IF h[entry].hash = hash /\ Fns_equals(self, h[entry].key, key)
         THEN [entry |-> entry, last_entry |-> last_entry]
         ELSE PutScan(self, h, h[entry].next, entry, hash, key)

\* Hashmap_K_V_put on a put that finds the key and leaves its old value.
Hashmap_put_NoUpdate(self, h, key, value) ==
    LET pre == IF NeedsResize(self) THEN Hashmap_resize(self, h)
               ELSE [map |-> self, heap |-> h]
        hash == Fns_hash(self, key)
        index == IntAnd(hash, pre.map.capacity - 1)
        s == PutScan(self, pre.heap, pre.map.entries[index], pre.map.entries[index], hash, key)
        new == Malloc(pre.heap)
    IN IF s.entry # NULL
       THEN [map |-> pre.map, heap |-> pre.heap, resized |-> NeedsResize(self),
             added |-> FALSE]
       ELSE [map |-> [pre.map EXCEPT !.entries[index] = IF s.last_entry = NULL THEN new ELSE @,
                                     !.size = @ + 1],
             heap |-> [p \in DOMAIN pre.heap \cup {new} |->
                         IF p = new THEN [key |-> key, value |-> value, hash |-> hash, next |-> NULL]
                         ELSE IF p = s.last_entry THEN [pre.heap[p] EXCEPT !.next = new]
                         ELSE pre.heap[p]],
             resized |-> NeedsResize(self), added |-> TRUE]

\* Hashmap_K_V_put on a put that computes the bucket index before the growth
\* check, with the capacity the table had then.
Hashmap_put_StaleIndex(self, h, key, value) ==
    LET pre == IF NeedsResize(self) THEN Hashmap_resize(self, h)
               ELSE [map |-> self, heap |-> h]
        hash == Fns_hash(self, key)
        index == IntAnd(hash, self.capacity - 1)
        s == PutScan(self, pre.heap, pre.map.entries[index], pre.map.entries[index], hash, key)
        new == Malloc(pre.heap)
    IN IF s.entry # NULL
       THEN [map |-> pre.map, heap |-> [pre.heap EXCEPT ![s.entry].value = value],
             resized |-> NeedsResize(self), added |-> FALSE]
       ELSE [map |-> [pre.map EXCEPT !.entries[index] = IF s.last_entry = NULL THEN new ELSE @,
                                     !.size = @ + 1],
             heap |-> [p \in DOMAIN pre.heap \cup {new} |->
                         IF p = new THEN [key |-> key, value |-> value, hash |-> hash, next |-> NULL]
                         ELSE IF p = s.last_entry THEN [pre.heap[p] EXCEPT !.next = new]
                         ELSE pre.heap[p]],
             resized |-> NeedsResize(self), added |-> TRUE]

\* Hashmap_K_V_put on a put that counts an update as an addition.
Hashmap_put_CountsUpdate(self, h, key, value) ==
    LET pre == IF NeedsResize(self) THEN Hashmap_resize(self, h)
               ELSE [map |-> self, heap |-> h]
        hash == Fns_hash(self, key)
        index == IntAnd(hash, pre.map.capacity - 1)
        s == PutScan(self, pre.heap, pre.map.entries[index], pre.map.entries[index], hash, key)
        new == Malloc(pre.heap)
    IN IF s.entry # NULL
       THEN [map |-> [pre.map EXCEPT !.size = @ + 1],
             heap |-> [pre.heap EXCEPT ![s.entry].value = value],
             resized |-> NeedsResize(self), added |-> FALSE]
       ELSE [map |-> [pre.map EXCEPT !.entries[index] = IF s.last_entry = NULL THEN new ELSE @,
                                     !.size = @ + 1],
             heap |-> [p \in DOMAIN pre.heap \cup {new} |->
                         IF p = new THEN [key |-> key, value |-> value, hash |-> hash, next |-> NULL]
                         ELSE IF p = s.last_entry THEN [pre.heap[p] EXCEPT !.next = new]
                         ELSE pre.heap[p]],
             resized |-> NeedsResize(self), added |-> TRUE]

\* Hashmap_K_V_put: the map and heap after the call, whether it resized and
\* whether it allocated an entry
Hashmap_put(self, h, key, value) ==
    LET pre == IF NeedsResize(self) THEN Hashmap_resize(self, h)
               ELSE [map |-> self, heap |-> h]
        m == pre.map
        hp == pre.heap
        hash == Fns_hash(self, key)
        index == IntAnd(hash, m.capacity - 1)
        s == PutScan(self, hp, m.entries[index], m.entries[index], hash, key)
        new == Malloc(hp)
    IN IF s.entry # NULL
       THEN [map |-> m, heap |-> [hp EXCEPT ![s.entry].value = value],
             resized |-> NeedsResize(self), added |-> FALSE]
       ELSE [map |-> [fns |-> m.fns,
                      entries |-> IF s.last_entry = NULL
                                  THEN [m.entries EXCEPT ![index] = new]
                                  ELSE m.entries,
                      size |-> m.size + 1,
                      capacity |-> m.capacity],
             heap |-> [p \in DOMAIN hp \cup {new} |->
                         IF p = new THEN [key |-> key, value |-> value, hash |-> hash, next |-> NULL]
                         ELSE IF p = s.last_entry THEN [hp[p] EXCEPT !.next = new]
                         ELSE hp[p]],
             resized |-> NeedsResize(self), added |-> TRUE]

\* The scan of get on a scan that looks at the head of the chain only.
GetScan_HeadOnly(self, h, entry, key) ==
    IF entry = NULL THEN NULL
    ELSE IF Fns_equals(self, h[entry].key, key) THEN entry ELSE NULL

\* The scan of get: stops at the first entry with an equal key.
RECURSIVE GetScan(_, _, _, _)
GetScan(self, h, entry, key) ==
    IF entry = NULL THEN NULL
    ELSE IF Fns_equals(self, h[entry].key, key) THEN entry
         ELSE GetScan(self, h, h[entry].next, key)

\* Hashmap_K_V_get: the entry whose value field the returned pointer addresses, or NULL
Hashmap_get(self, h, key) ==
    LET hash == Fns_hash(self, key)
        index == IntAnd(hash, self.capacity - 1)
    IN GetScan(self, h, self.entries[index], key)

\* Hashmap_K_V_contains
Hashmap_contains(self, h, key) == Hashmap_get(self, h, key) # NULL

\* The scan of remove on a scan that takes the first entry with the cached
\* hash for the entry of the key.
RECURSIVE RemoveScan_HashOnly(_, _, _, _, _, _)
RemoveScan_HashOnly(self, h, entry, prev, hash, key) ==
    IF entry = NULL THEN [entry |-> NULL, prev |-> prev]
    ELSE IF h[entry].hash = hash
         THEN [entry |-> entry, prev |-> prev]
         ELSE RemoveScan_HashOnly(self, h, h[entry].next, entry, hash, key)

\* The scan of remove: the matching entry and the one before it in the chain.
RECURSIVE RemoveScan(_, _, _, _, _, _)
RemoveScan(self, h, entry, prev, hash, key) ==
    IF entry = NULL THEN [entry |-> NULL, prev |-> prev]
    ELSE IF h[entry].hash = hash /\ Fns_equals(self, h[entry].key, key)
         THEN [entry |-> entry, prev |-> prev]
         ELSE RemoveScan(self, h, h[entry].next, entry, hash, key)

\* Hashmap_K_V_remove on a remove that unlinks the whole rest of the chain.
Hashmap_remove_CutChain(self, h, key) ==
    LET hash == Fns_hash(self, key)
        index == IntAnd(hash, self.capacity - 1)
        s == RemoveScan(self, h, self.entries[index], NULL, hash, key)
    IN IF s.entry = NULL
       THEN [map |-> self, heap |-> h, ret |-> FALSE]
       ELSE [map |-> [self EXCEPT !.entries[index] = IF s.prev = NULL THEN NULL ELSE @,
                                  !.size = @ - 1],
             heap |-> Free(IF s.prev = NULL THEN h ELSE [h EXCEPT ![s.prev].next = NULL],
                           s.entry),
             ret |-> TRUE]

\* Hashmap_K_V_remove on a remove that leaves size as it was.
Hashmap_remove_KeepSize(self, h, key) ==
    LET hash == Fns_hash(self, key)
        index == IntAnd(hash, self.capacity - 1)
        s == RemoveScan(self, h, self.entries[index], NULL, hash, key)
    IN IF s.entry = NULL
       THEN [map |-> self, heap |-> h, ret |-> FALSE]
       ELSE [map |-> [self EXCEPT !.entries[index] = IF s.prev = NULL THEN h[s.entry].next ELSE @],
             heap |-> Free(IF s.prev = NULL THEN h
                           ELSE [h EXCEPT ![s.prev].next = h[s.entry].next],
                           s.entry),
             ret |-> TRUE]

\* Hashmap_K_V_remove: the map and heap after the call, and the returned bool
Hashmap_remove(self, h, key) ==
    LET hash == Fns_hash(self, key)
        index == IntAnd(hash, self.capacity - 1)
        s == RemoveScan(self, h, self.entries[index], NULL, hash, key)
    IN IF s.entry = NULL
       THEN [map |-> self, heap |-> h, ret |-> FALSE]
       ELSE [map |-> [fns |-> self.fns,
                      entries |-> IF s.prev = NULL
                                  THEN [self.entries EXCEPT ![index] = h[s.entry].next]
                                  ELSE self.entries,
                      size |-> self.size - 1,
                      capacity |-> self.capacity],
             heap |-> Free(IF s.prev = NULL THEN h
                           ELSE [h EXCEPT ![s.prev].next = h[s.entry].next],
                           s.entry),
             ret |-> TRUE]

\* The loops of clear on loops that free the first entry of each chain only.
ClearWalk_HeadsOnly(self, h, i, entry) ==
    LET heads == {self.entries[j] : j \in 0 .. self.capacity - 1} \ {NULL}
    IN [p \in (DOMAIN h) \ heads |-> h[p]]

\* The loops of clear: frees bucket i's chain from entry on, then the later buckets.
RECURSIVE ClearWalk(_, _, _, _)
ClearWalk(self, h, i, entry) ==
    IF entry = NULL
    THEN IF i + 1 < self.capacity
         THEN ClearWalk(self, h, i + 1, self.entries[i + 1])
         ELSE h
    ELSE ClearWalk(self, Free(h, entry), i, h[entry].next)

\* Hashmap_K_V_clear on a clear that resets the size and keeps the chains.
Hashmap_clear_SizeOnly(self, h) == [map |-> [self EXCEPT !.size = 0], heap |-> h]

\* Hashmap_K_V_clear
Hashmap_clear(self, h) ==
    [map |-> [fns |-> self.fns, entries |-> [i \in 0 .. self.capacity - 1 |-> NULL],
              size |-> 0, capacity |-> self.capacity],
     heap |-> ClearWalk(self, h, 0, self.entries[0])]

\* The calls free(entry) of the loops of clear and of free, in order: bucket
\* i's chain from entry on, then the later buckets.  next is read before
\* the entry is freed.
RECURSIVE FreeWalk(_, _, _, _, _)
FreeWalk(self, h, i, entry, freed) ==
    IF entry = NULL
    THEN IF i + 1 < self.capacity
         THEN FreeWalk(self, h, i + 1, self.entries[i + 1], freed)
         ELSE freed
    ELSE FreeWalk(self, h, i, h[entry].next, Append(freed, entry))

\* Hashmap_K_V_free: every entry is freed, then the bucket array and the
\* struct; no struct is left, as before construction
Hashmap_free(self, h) ==
    [map |-> [fns |-> self.fns, entries |-> <<>>, size |-> 0, capacity |-> 0],
     heap |-> ClearWalk(self, h, 0, self.entries[0])]

\* Hashmap_K_V_key_display: _Generic(e, long long: fprintf(stream, "%lld", e))
Hashmap_key_display(key) == FormatInt64(key)

\* Hashmap_K_V_value_display: _Generic(e, int: fprintf(stream, "%d", e))
Hashmap_value_display(value) == FormatInt(value)

\* The separator test on a test that is always true.
PairSeparator_Always(self, count) == TRUE

\* if (count < self->size - 1) fprintf(stream, ", ");
PairSeparator(self, count) == count < self.size - 1

\* The loops of display: bucket i's chain from entry on, then the later buckets.
RECURSIVE DisplayWalk(_, _, _, _, _, _)
DisplayWalk(self, h, i, entry, count, out) ==
    IF entry = NULL
    THEN IF i + 1 < self.capacity
         THEN DisplayWalk(self, h, i + 1, self.entries[i + 1], count, out)
         ELSE out
    ELSE DisplayWalk(self, h, i, h[entry].next, count + 1,
                     out \o <<Hashmap_key_display(h[entry].key), ": ",
                              Hashmap_value_display(h[entry].value)>>
                         \o (IF PairSeparator(self, count) THEN <<", ">> ELSE <<>>))

\* Hashmap_K_V_display: what it writes to the stream
Hashmap_display(self, h) ==
    Append(DisplayWalk(self, h, 0, self.entries[0], 0, <<"{">>), "}")

\* Hashmap_K_V_get_iterator on a cursor that starts behind bucket 0.
Hashmap_get_iterator_SkipFirst == [index |-> 1, entry |-> NULL]

\* Hashmap_K_V_get_iterator
Hashmap_get_iterator == [index |-> 0, entry |-> NULL]

\* while (self->index < capacity) { entry = entries[index]; index++; if (entry) return true; }
RECURSIVE NextBucket(_, _)
NextBucket(self, it) ==
    IF it.index < self.capacity
    THEN LET found == [index |-> it.index + 1, entry |-> self.entries[it.index]]
         IN IF found.entry # NULL
            THEN [it |-> found, ret |-> TRUE]
            ELSE NextBucket(self, found)
    ELSE [it |-> it, ret |-> FALSE]

\* Hashmap_K_V_iterator_next on a cursor that never follows a chain.
Hashmap_iterator_next_HeadsOnly(self, h, it) == NextBucket(self, it)

\* Hashmap_K_V_iterator_next on a cursor that goes back to bucket 0 when it
\* has run past the last bucket.
Hashmap_iterator_next_Wraps(self, h, it) ==
    IF it.entry # NULL /\ h[it.entry].next # NULL
    THEN [it |-> [it EXCEPT !.entry = h[it.entry].next], ret |-> TRUE]
    ELSE LET r == NextBucket(self, it)
         IN IF r.ret THEN r ELSE [it |-> [index |-> 0, entry |-> NULL], ret |-> FALSE]

\* Hashmap_K_V_iterator_next: the cursor after the call and the result
Hashmap_iterator_next(self, h, it) ==
    IF it.entry # NULL /\ h[it.entry].next # NULL
    THEN [it |-> [it EXCEPT !.entry = h[it.entry].next], ret |-> TRUE]
    ELSE NextBucket(self, it)

\* *Hashmap_K_V_iterator_current_key(it)
Hashmap_iterator_current_key(h, it) == h[it.entry].key

\* *Hashmap_K_V_iterator_current_value(it)
Hashmap_iterator_current_value(h, it) == h[it.entry].value

(***************************************************************************)
(* Dynamic array engine                                                    *)
(***************************************************************************)
\* vector_new(T): Vector_T_new(10)
DefaultVectorCapacity == 10
\* hashmap_new(K, V): Hashmap_K_V_new(16)
DefaultMapCapacity == 16

\* static bool Vector_T_equals(T e1, T e2) { return e1 == e2; }
Vector_equals(e1, e2) == e1 = e2

\* Vector_T_new: malloc(capacity * sizeof(T)) leaves every slot unset
Vector_new(capacity) ==
    [data |-> [i \in 0 .. capacity - 1 |-> Uninit], size |-> 0, capacity |-> capacity]

\* realloc on a reallocation that hands out a new buffer without the old contents.
Realloc_NoCopy(data, capacity) == [i \in 0 .. capacity - 1 |-> Uninit]

\* realloc(self->data, self->capacity * sizeof(T)): the old slots keep their
\* contents, the added ones are unset
Realloc(data, capacity) ==
    [i \in 0 .. capacity - 1 |-> IF i \in DOMAIN data THEN data[i] ELSE Uninit]

\* The growth step on a step that adds one slot.
Grow_ByOne(self) ==
    IF self.size = self.capacity
    THEN [self EXCEPT !.capacity = self.capacity + 1,
                      !.data = Realloc(self.data, self.capacity + 1)]
    ELSE self

\* if (self->size == self->capacity) { capacity *= 2; realloc }
Grow(self) ==
    IF self.size = self.capacity
    THEN [self EXCEPT !.capacity = self.capacity * 2,
                      !.data = Realloc(self.data, self.capacity * 2)]
    ELSE self

\* self->data[i] = value; a store outside the buffer is recorded in oob
Store(st, i, value) ==
    IF i \in DOMAIN st.vec.data
    THEN [st EXCEPT !.vec.data[i] = value]
    ELSE [st EXCEPT !.oob = TRUE]

\* Vector_T_push: the array after the call, and whether it stored outside the buffer
Vector_push(self, value) ==
    LET st == Store([vec |-> Grow(self), oob |-> FALSE], self.size, value)
    IN [vec |-> [st.vec EXCEPT !.size = self.size + 1], ret |-> TRUE, oob |-> st.oob]

\* Vector_T_pop on a pop that never tests for the empty array.
Vector_pop_Unchecked(self) ==
    [vec |-> [self EXCEPT !.size = self.size - 1], ret |-> TRUE, oob |-> FALSE]

\* Vector_T_pop on a pop that gives back half of a buffer left at most half full.
Vector_pop_Shrink(self) ==
    IF self.size > 0
    THEN LET capacity == IF 2 * (self.size - 1) <= self.capacity /\ self.capacity > 1
                         THEN self.capacity \div 2 ELSE self.capacity
         IN [vec |-> [data |-> Realloc(self.data, capacity), size |-> self.size - 1,
                      capacity |-> capacity],
             ret |-> TRUE, oob |-> FALSE]
    ELSE [vec |-> self, ret |-> FALSE, oob |-> FALSE]

\* Vector_T_pop
Vector_pop(self) ==
    IF self.size > 0
    THEN [vec |-> [self EXCEPT !.size = self.size - 1], ret |-> TRUE, oob |-> FALSE]
    ELSE [vec |-> self, ret |-> FALSE, oob |-> FALSE]

\* A returned const T*: NULL, or the address of data[index]
NullPtr == [null |-> TRUE, index |-> 0]
PtrTo(index) == [null |-> FALSE, index |-> index]

\* *p for a returned pointer p: the slot it addresses
Deref(self, p) == IF p.index \in DOMAIN self.data THEN self.data[p.index] ELSE Uninit

\* Vector_T_last
Vector_last(self) == IF self.size > 0 THEN PtrTo(self.size - 1) ELSE NullPtr

\* Vector_T_get
Vector_get(self, index) == IF index < self.size THEN PtrTo(index) ELSE NullPtr

\* for (int i = index; i < self->size - 1; i++) self->data[i] = self->data[i + 1];
RECURSIVE ShiftDown(_, _)
ShiftDown(st, i) ==
    IF i < st.vec.size - 1
    THEN ShiftDown(Store(st, i, st.vec.data[i + 1]), i + 1)
    ELSE st

\* Vector_T_remove on a remove that shifts the elements and keeps the size.
Vector_remove_KeepSize(self, index) ==
    IF index < 0 \/ index >= self.size
    THEN [vec |-> self, ret |-> FALSE, oob |-> FALSE]
    ELSE LET st == ShiftDown([vec |-> self, oob |-> FALSE], index)
         IN [vec |-> st.vec, ret |-> TRUE, oob |-> st.oob]

\* Vector_T_remove on a remove that drops the last slot instead of shifting.
Vector_remove_DropLast(self, index) ==
    IF index < 0 \/ index >= self.size
    THEN [vec |-> self, ret |-> FALSE, oob |-> FALSE]
    ELSE [vec |-> [self EXCEPT !.size = self.size - 1], ret |-> TRUE, oob |-> FALSE]

\* Vector_T_remove
Vector_remove(self, index) ==
    IF index < 0 \/ index >= self.size
    THEN [vec |-> self, ret |-> FALSE, oob |-> FALSE]
    ELSE LET st == ShiftDown([vec |-> self, oob |-> FALSE], index)
         IN [vec |-> [st.vec EXCEPT !.size = self.size - 1], ret |-> TRUE, oob |-> st.oob]

\* for (int i = 0; i < self->size; i++) if (equals(self->data[i], value)) return i;
RECURSIVE IndexOfFrom(_, _, _)
IndexOfFrom(self, i, value) ==
    IF i < self.size
    THEN IF Vector_equals(self.data[i], value) THEN i ELSE IndexOfFrom(self, i + 1, value)
    ELSE -1

\* Vector_T_index_of on a scan that runs over the whole buffer, not only [0, size).
Vector_index_of_WholeBuffer(self, value) ==
    IF \E i \in DOMAIN self.data : Vector_equals(self.data[i], value)
    THEN CHOOSE i \in DOMAIN self.data :
             /\ Vector_equals(self.data[i], value)
             /\ \A j \in DOMAIN self.data : Vector_equals(self.data[j], value) => i <= j
    ELSE -1

\* Vector_T_index_of
Vector_index_of(self, value) == IndexOfFrom(self, 0, value)

\* Vector_T_remove_element on a removal of the last occurrence.
Vector_remove_element_Last(self, value) ==
    LET found == {i \in 0 .. self.size - 1 : Vector_equals(self.data[i], value)}
    IN Vector_remove(self, IF found = {} THEN -1
                           ELSE CHOOSE i \in found : \A j \in found : j <= i)

\* Vector_T_remove_element
Vector_remove_element(self, value) == Vector_remove(self, Vector_index_of(self, value))

\* Vector_T_set
Vector_set(self, index, value) ==
    IF index < 0 \/ index >= self.size
    THEN [vec |-> self, ret |-> FALSE, oob |-> FALSE]
    ELSE LET st == Store([vec |-> self, oob |-> FALSE], index, value)
         IN [vec |-> st.vec, ret |-> TRUE, oob |-> st.oob]

\* for (int i = self->size; i > index; i--) self->data[i] = self->data[i - 1];
RECURSIVE ShiftUp(_, _, _)
ShiftUp(st, i, index) ==
    IF i > index
    THEN ShiftUp(Store(st, i, st.vec.data[i - 1]), i - 1, index)
    ELSE st

\* Vector_T_insert on an insert that never grows the buffer.
Vector_insert_NoGrow(self, index, value) ==
    IF index < 0 \/ index > self.size
    THEN [vec |-> self, ret |-> FALSE, oob |-> FALSE]
    ELSE LET st == Store(ShiftUp([vec |-> self, oob |-> FALSE], self.size, index),
                         index, value)
         IN [vec |-> [st.vec EXCEPT !.size = self.size + 1], ret |-> TRUE, oob |-> st.oob]

\* Vector_T_insert on an insert that grows the buffer before it tests the index.
Vector_insert_GrowFirst(self, index, value) ==
    IF index < 0 \/ index > self.size
    THEN [vec |-> Grow(self), ret |-> FALSE, oob |-> FALSE]
    ELSE LET st == Store(ShiftUp([vec |-> Grow(self), oob |-> FALSE], self.size, index),
                         index, value)
         IN [vec |-> [st.vec EXCEPT !.size = self.size + 1], ret |-> TRUE, oob |-> st.oob]

\* Vector_T_insert on an insert that stores over the element at index without shifting.
Vector_insert_Overwrite(self, index, value) ==
    IF index < 0 \/ index > self.size
    THEN [vec |-> self, ret |-> FALSE, oob |-> FALSE]
    ELSE LET st == Store([vec |-> Grow(self), oob |-> FALSE], index, value)
         IN [vec |-> [st.vec EXCEPT !.size = self.size + 1], ret |-> TRUE, oob |-> st.oob]

\* Vector_T_insert
Vector_insert(self, index, value) ==
    IF index < 0 \/ index > self.size
    THEN [vec |-> self, ret |-> FALSE, oob |-> FALSE]
    ELSE LET st == Store(ShiftUp([vec |-> Grow(self), oob |-> FALSE], self.size, index),
                         index, value)
         IN [vec |-> [st.vec EXCEPT !.size = self.size + 1], ret |-> TRUE, oob |-> st.oob]

\* Vector_T_contains
Vector_contains(self, value) == Vector_index_of(self, value) # -1

\* Vector_T_clear on a clear that also releases the buffer.
Vector_clear_Release(self) == [data |-> [i \in {} |-> Uninit], size |-> 0, capacity |-> 0]

\* Vector_T_clear
Vector_clear(self) == [self EXCEPT !.size = 0]

\* Vector_T_get_iterator
Vector_get_iterator == [index |-> -1]

\* Vector_T_iterator_next on a cursor that advances while index < size.
Vector_iterator_next_PastEnd(self, it) ==
    IF it.index < self.size
    THEN [it |-> [it EXCEPT !.index = it.index + 1], ret |-> TRUE]
    ELSE [it |-> it, ret |-> FALSE]

\* Vector_T_iterator_next: the cursor after the call and the result
Vector_iterator_next(self, it) ==
    IF it.index < self.size - 1
    THEN [it |-> [it EXCEPT !.index = it.index + 1], ret |-> TRUE]
    ELSE [it |-> it, ret |-> FALSE]

\* Vector_T_iterator_current
Vector_iterator_current(self, it) ==
    IF it.index >= 0 /\ it.index < self.size THEN PtrTo(it.index) ELSE NullPtr

\* Vector_T_display_element: _Generic(e, int: fprintf(stream, "%d", e))
Vector_display_element(e) == FormatInt(e)

\* The separator test on a test that is always true.
ElementSeparator_Always(self, i) == TRUE

\* if (i != self->size - 1) fprintf(stream, ", ");
ElementSeparator(self, i) == i # self.size - 1

\* for (int i = 0; i < self->size; i++) { display_element; separator }
RECURSIVE DisplayFrom(_, _, _)
DisplayFrom(self, i, out) ==
    IF i < self.size
    THEN DisplayFrom(self, i + 1,
                     Append(out, Vector_display_element(self.data[i]))
                         \o (IF ElementSeparator(self, i) THEN <<", ">> ELSE <<>>))
    ELSE out

\* Vector_T_display: what it writes to the stream
Vector_display(self) == Append(DisplayFrom(self, 0, <<"[">>), "]")

(***************************************************************************)
(* The state machines                                                      *)
(***************************************************************************)
MLast(op, arg, key, value, ret, resized, added) ==
    [op |-> op, arg |-> arg, key |-> key, value |-> value, ret |-> ret,
     resized |-> resized, added |-> added]

VLast(op, index, value, ret, oob, grew) ==
    [op |-> op, index |-> index, value |-> value, ret |-> ret, oob |-> oob, grew |-> grew]

\* A caller's iterator that does not exist yet, one that get_iterator has
\* just returned, and one after a call of next() that returned ret and, when
\* ret is true, exposed the element or entry yielded through current.
HLast(K, key1, key2, hash1, hash2, equals) ==
    [K |-> K, key1 |-> key1, key2 |-> key2, hash1 |-> hash1, hash2 |-> hash2, equals |-> equals]
NoIterator(it) == [live |-> FALSE, it |-> it, ret |-> FALSE, seen |-> <<>>, done |-> FALSE]
FreshIterator(it) == [NoIterator(it) EXCEPT !.live = TRUE]
Advanced(iter, it, ret, yielded) ==
    [live |-> TRUE, it |-> it, ret |-> ret,
     seen |-> IF ret THEN Append(iter.seen, yielded) ELSE iter.seen,
     done |-> iter.done \/ ~ret]

\* No container is constructed yet.
Init ==
    /\ mpc = "start"
    /\ map = Hashmap_new(0)
    /\ heap = [p \in {} |-> NULL]
    /\ mlast = MLast("none", 0, <<0, 0>>, 0, FALSE, FALSE, FALSE)
    /\ vpc = "start"
    /\ vec = Vector_new(0)
    /\ vcount = [adds |-> 0, dels |-> 0, cap0 |-> 0]
    /\ vlast = VLast("none", 0, 0, FALSE, FALSE, FALSE)
    /\ vit = NoIterator(Vector_get_iterator)
    /\ mit = NoIterator(Hashmap_get_iterator)
    /\ stream = <<>>
    /\ hlast = HLast("none", 0, 0, 0, 0, FALSE)

\* hashmap_new(K, V)
MapNew ==
    /\ mpc = "start"
    /\ mpc' = "live"
    /\ map' = Hashmap_new(DefaultMapCapacity)
    /\ mlast' = MLast("new", DefaultMapCapacity, <<0, 0>>, 0, TRUE, FALSE, FALSE)
    /\ UNCHANGED <<heap, vecVars, callerVars>>

\* hashmap_new_with_capacity(K, V, capacity): _Exit(-1) on a rejected capacity
MapNewWithCapacity(capacity) ==
    /\ mpc = "start"
    /\ IF CapacityRejected(capacity)
       THEN /\ mpc' = "exited"
            /\ map' = map
            /\ mlast' = MLast("new", capacity, <<0, 0>>, 0, FALSE, FALSE, FALSE)
       ELSE /\ mpc' = "live"
            /\ map' = Hashmap_new(capacity)
            /\ mlast' = MLast("new", capacity, <<0, 0>>, 0, TRUE, FALSE, FALSE)
    /\ UNCHANGED <<heap, vecVars, callerVars>>

\* Whether put(key, ...) would malloc an entry.
PutAllocates(self, h, key) ==
    LET hash == Fns_hash(self, key)
        index == IntAnd(hash, self.capacity - 1)
    IN PutScan(self, h, self.entries[index], self.entries[index], hash, key).entry = NULL

\* hashmap_put(map, key, value), while malloc has a cell to give
Put(key, value) ==
    /\ mpc = "live"
    /\ PutAllocates(map, heap, key) => DOMAIN heap # 1 .. MaxEntries
    /\ LET r == Hashmap_put(map, heap, key, value)
       IN /\ map' = r.map
          /\ heap' = r.heap
          /\ mlast' = MLast("put", 0, key, value, TRUE, r.resized, r.added)
    /\ UNCHANGED <<mpc, vecVars, callerVars>>

\* hashmap_remove(map, key)
Remove(key) ==
    /\ mpc = "live"
    /\ LET r == Hashmap_remove(map, heap, key)
       IN /\ map' = r.map
          /\ heap' = r.heap
          /\ mlast' = MLast("remove", 0, key, 0, r.ret, FALSE, FALSE)
    /\ UNCHANGED <<mpc, vecVars, callerVars>>

\* hashmap_clear(map)
Clear ==
    /\ mpc = "live"
    /\ LET r == Hashmap_clear(map, heap)
       IN /\ map' = r.map
          /\ heap' = r.heap
          /\ mlast' = MLast("clear", map.size, <<0, 0>>, 0, TRUE, FALSE, FALSE)
    /\ UNCHANGED <<mpc, vecVars, callerVars>>

NextMap ==
    \/ MapNew
    \/ \E capacity \in MapCapInputs : MapNewWithCapacity(capacity)
    \/ \E key \in Keys, value \in MapValues : Put(key, value)
    \/ \E key \in Keys : Remove(key)
    \/ Clear

SpecMap == Init /\ [][NextMap]_vars

\* hashmap_free(map)
MapFree ==
    /\ mpc = "live"
    /\ mpc' = "freed"
    /\ LET r == Hashmap_free(map, heap)
       IN /\ map' = r.map
          /\ heap' = r.heap
          /\ mlast' = MLast("free", map.size, <<0, 0>>, 0, TRUE, FALSE, FALSE)
    /\ UNCHANGED <<vecVars, callerVars>>

NextMapFree ==
    \/ NextMap
    \/ MapFree

SpecMapFree == Init /\ [][NextMapFree]_vars

\* vector_new(T)
VecNew ==
    /\ vpc = "start"
    /\ vpc' = "live"
    /\ vec' = Vector_new(DefaultVectorCapacity)
    /\ vlast' = VLast("new", DefaultVectorCapacity, 0, TRUE, FALSE, FALSE)
    /\ vcount' = [adds |-> 0, dels |-> 0, cap0 |-> DefaultVectorCapacity]
    /\ UNCHANGED <<mapVars, callerVars>>

\* vector_new_with_capacity(T, capacity), with a positive capacity
VecNewWithCapacity(capacity) ==
    /\ vpc = "start"
    /\ vpc' = "live"
    /\ vec' = Vector_new(capacity)
    /\ vlast' = VLast("new", capacity, 0, TRUE, FALSE, FALSE)
    /\ vcount' = [adds |-> 0, dels |-> 0, cap0 |-> capacity]
    /\ UNCHANGED <<mapVars, callerVars>>

\* One call of an array operation with result r, counted as an addition or a removal.
VecStep(op, index, value, r, added, removed) ==
    /\ vpc = "live"
    /\ vec' = r.vec
    /\ vlast' = VLast(op, index, value, r.ret, r.oob, r.vec.capacity # vec.capacity)
    /\ vcount' = [vcount EXCEPT !.adds = @ + (IF added THEN 1 ELSE 0),
                                !.dels = @ + (IF removed THEN 1 ELSE 0)]
    /\ UNCHANGED <<vpc, mapVars, callerVars>>

\* vector_push(vec, value)
VecPush(value) ==
    /\ vcount.adds < MaxAdds
    /\ VecStep("push", 0, value, Vector_push(vec, value), TRUE, FALSE)

\* vector_pop(vec)
VecPop ==
    VecStep("pop", 0, 0, Vector_pop(vec), FALSE, Vector_pop(vec).ret)

\* vector_remove(vec, index)
VecRemove(index) ==
    VecStep("remove", index, 0, Vector_remove(vec, index), FALSE, Vector_remove(vec, index).ret)

\* vector_remove_element(vec, value)
VecRemoveElement(value) ==
    VecStep("remove_element", 0, value, Vector_remove_element(vec, value),
            FALSE, Vector_remove_element(vec, value).ret)

\* vector_set(vec, index, value)
VecSet(index, value) ==
    VecStep("set", index, value, Vector_set(vec, index, value), FALSE, FALSE)

\* vector_insert(vec, index, value)
VecInsert(index, value) ==
    /\ vcount.adds < MaxAdds
    /\ VecStep("insert", index, value, Vector_insert(vec, index, value),
               Vector_insert(vec, index, value).ret, FALSE)

\* vector_clear(vec)
VecClear ==
    /\ vpc = "live"
    /\ vec' = Vector_clear(vec)
    /\ vlast' = VLast("clear", vec.size, 0, TRUE, FALSE, FALSE)
    /\ vcount' = [vcount EXCEPT !.adds = 0, !.dels = 0]
    /\ UNCHANGED <<vpc, mapVars, callerVars>>

NextVec ==
    \/ VecNew
    \/ \E capacity \in 1 .. MaxVecCap : VecNewWithCapacity(capacity)
    \/ \E value \in Values : VecPush(value)
    \/ VecPop
    \/ \E index \in -1 .. vec.size : VecRemove(index)
    \/ \E value \in Values : VecRemoveElement(value)
    \/ \E index \in -1 .. vec.size, value \in Values : VecSet(index, value)
    \/ \E index \in -1 .. vec.size + 1, value \in Values : VecInsert(index, value)
    \/ VecClear

SpecVec == Init /\ [][NextVec]_vars

\* vector_push(vec, value) on an array that is only ever pushed to
PushOnly(value) ==
    /\ vcount.adds < ScenarioPushes
    /\ VecStep("push", 0, value, Vector_push(vec, value), TRUE, FALSE)

NextPush ==
    \/ VecNew
    \/ \E capacity \in 1 .. MaxVecCap : VecNewWithCapacity(capacity)
    \/ \E value \in Values : PushOnly(value)

\* Arrays that are constructed and then only pushed to (scenario C).
SpecPush == Init /\ [][NextPush]_vars

\* vector_iterator(T) it = vector_get_iterator(vec)
VecGetIterator ==
    /\ vpc = "live"
    /\ vit' = FreshIterator(Vector_get_iterator)
    /\ UNCHANGED <<mapVars, vecVars, mit, stream, hlast>>

\* vector_iterator_next(it), followed by *vector_iterator_current(it) when it returned true
VecIteratorNext ==
    /\ vit.live
    /\ LET r == Vector_iterator_next(vec, vit.it)
       IN vit' = Advanced(vit, r.it, r.ret, Vector_iterator_current(vec, r.it))
    /\ UNCHANGED <<mapVars, vecVars, mit, stream, hlast>>

\* An array that is built up and, once an iterator is taken, only traversed.
NextVecIter ==
    \/ VecNew
    \/ \E capacity \in 1 .. MaxVecCap : VecNewWithCapacity(capacity)
    \/ ~vit.live /\ \E value \in Values : VecPush(value)
    \/ ~vit.live /\ VecPop
    \/ ~vit.live /\ \E index \in 0 .. vec.size - 1 : VecRemove(index)
    \/ VecGetIterator
    \/ VecIteratorNext

SpecVecIter == Init /\ [][NextVecIter]_vars

\* hashmap_iterator(K, V) it = hashmap_get_iterator(map)
MapGetIterator ==
    /\ mpc = "live"
    /\ mit' = FreshIterator(Hashmap_get_iterator)
    /\ UNCHANGED <<mapVars, vecVars, vit, stream, hlast>>

\* hashmap_iterator_next(it), followed by *hashmap_iterator_current_key(it) and
\* *hashmap_iterator_current_value(it) when it returned true
MapIteratorNext ==
    /\ mit.live
    /\ LET r == Hashmap_iterator_next(map, heap, mit.it)
       IN mit' = Advanced(mit, r.it, r.ret,
                          IF r.ret
                          THEN [key |-> Hashmap_iterator_current_key(heap, r.it),
                                value |-> Hashmap_iterator_current_value(heap, r.it)]
                          ELSE [key |-> <<0, 0>>, value |-> 0])
    /\ UNCHANGED <<mapVars, vecVars, vit, stream, hlast>>

\* A map that is built up and, once an iterator is taken, only traversed.
NextMapIter ==
    \/ MapNew
    \/ \E capacity \in MapCapInputs : MapNewWithCapacity(capacity)
    \/ ~mit.live /\ \E key \in Keys, value \in MapValues : Put(key, value)
    \/ ~mit.live /\ \E key \in Keys : Remove(key)
    \/ MapGetIterator
    \/ MapIteratorNext

SpecMapIter == Init /\ [][NextMapIter]_vars

\* A program that fills an array with 0, 1, 2, ... and traverses it, and
\* then, the traversal of the array ended, fills and traverses a map.
NextIter ==
    \/ VecNew
    \/ mpc = "start" /\ ~vit.live /\ VecPush(vec.size)
    \/ mpc = "start" /\ VecGetIterator
    \/ mpc = "start" /\ VecIteratorNext
    \/ vit.done /\ MapNew
    \/ ~mit.live /\ \E key \in Keys, value \in MapValues : Put(key, value)
    \/ MapGetIterator
    \/ MapIteratorNext

SpecIter == Init /\ [][NextIter]_vars

\* vector_display(vec, stream)
VecDisplay ==
    /\ vpc = "live"
    /\ stream' = Vector_display(vec)
    /\ vlast' = VLast("display", 0, 0, TRUE, FALSE, FALSE)
    /\ UNCHANGED <<mapVars, vpc, vec, vcount, vit, mit, hlast>>

\* An array of the display values that is built up and then displayed.
NextVecDisplay ==
    \/ VecNew
    \/ \E capacity \in 1 .. MaxVecCap : VecNewWithCapacity(capacity)
    \/ stream = <<>> /\ \E value \in DisplayValues : VecPush(value)
    \/ stream = <<>> /\ VecPop
    \/ VecDisplay

SpecVecDisplay == Init /\ [][NextVecDisplay]_vars

\* hashmap_display(map, stream)
MapDisplay ==
    /\ mpc = "live"
    /\ stream' = Hashmap_display(map, heap)
    /\ mlast' = MLast("display", 0, <<0, 0>>, 0, TRUE, FALSE, FALSE)
    /\ UNCHANGED <<mpc, map, heap, vecVars, vit, mit, hlast>>

\* A map that is built up and then displayed.
NextMapDisplay ==
    \/ MapNew
    \/ \E capacity \in MapCapInputs : MapNewWithCapacity(capacity)
    \/ stream = <<>> /\ \E key \in Keys, value \in MapValues : Put(key, value)
    \/ stream = <<>> /\ \E key \in Keys : Remove(key)
    \/ MapDisplay

SpecMapDisplay == Init /\ [][NextMapDisplay]_vars

\* hashmap_new(cstr, int)
MapNewText ==
    /\ mpc = "start"
    /\ mpc' = "live"
    /\ map' = Hashmap_cstr_new(DefaultMapCapacity)
    /\ mlast' = MLast("new", DefaultMapCapacity, <<0, 0>>, 0, TRUE, FALSE, FALSE)
    /\ UNCHANGED <<heap, vecVars, callerVars>>

\* A program that holds text pointers either in a vector(cstr) or as the
\* keys of a hashmap(cstr, int).
NextText ==
    \/ mpc = "start" /\ VecNew
    \/ \E value \in TextPointers : VecPush(value)
    \/ \E value \in TextPointers : VecRemoveElement(value)
    \/ vpc = "start" /\ MapNewText
    \/ \E key \in TextPointers, value \in MapValues : Put(key, value)
    \/ \E key \in TextPointers : Remove(key)

SpecText == Init /\ [][NextText]_vars

\* The caller hands two keys of type K to the default hash and the default
\* equality of HASHMAP_DEFINE(K, V).
HashKeys ==
    \E K \in KeyTypes, sizeofLong \in LongSizes :
        \E key1, key2 \in KeysOf(K, sizeofLong), unspec1, unspec2 \in Unspecified :
            /\ hlast' = HLast(K, key1, key2,
                              Hashmap_K_V_hash(K, key1, unspec1, sizeofLong),
                              Hashmap_K_V_hash(K, key2, unspec2, sizeofLong),
                              Hashmap_K_V_equals(K, key1, key2))
            /\ UNCHANGED <<mapVars, vecVars, vit, mit, stream>>

NextHash == HashKeys

\* The caller hands two texts, each in a buffer of its own, to
\* Hashmap_hash_cstr, in a build with signed or with unsigned char.
HashText ==
    \E str1, str2 \in TextInputs, charSigned \in BOOLEAN :
        \E out1 \in HashOutcomes(str1, charSigned), out2 \in HashOutcomes(str2, charSigned) :
            /\ hlast' = HLast(IF charSigned THEN "signed char" ELSE "unsigned char",
                              str1, str2, out1, out2, str1 = str2)
            /\ UNCHANGED <<mapVars, vecVars, vit, mit, stream>>

NextTextHash == HashText

SpecHash == Init /\ [][NextHash]_vars

SpecTextHash == Init /\ [][NextTextHash]_vars

\* A program that constructs an array and a map with new(), in either
\* order, and fills the one it constructed first.
NextNew ==
    \/ VecNew
    \/ MapNew
    \/ \E value \in Values : mpc = "start" /\ VecPush(value)
    \/ \E key \in Keys, value \in MapValues : vpc = "start" /\ Put(key, value)

SpecNew == Init /\ [][NextNew]_vars

(***************************************************************************)
(* Properties                                                              *)
(***************************************************************************)
\* What a caller reads through the pointer get(key) returns.
Lookup(self, h, key) ==
    LET p == Hashmap_get(self, h, key)
    IN IF p = NULL THEN [found |-> FALSE, value |-> 0]
       ELSE [found |-> TRUE, value |-> IF p \in DOMAIN h THEN h[p].value ELSE Uninit]

IsPowerOfTwo(n) == \E e \in 0 .. 30 : n = 2 ^ e

\* C1: right after put(k, v), get(k) returns a pointer to v and contains(k)
\* is true, whether or not the put resized and whether or not k was present.
C1_PutThenGet ==
    mlast.op = "put" =>
        /\ Lookup(map, heap, mlast.key) = [found |-> TRUE, value |-> mlast.value]
        /\ Hashmap_contains(map, heap, mlast.key)

\* A put that resized and found its key already present, beside another key.
C1_Witness ==
    mlast.op = "put" /\ mlast.resized /\ ~mlast.added /\ map.size >= 2

\* C2: when a put doubles the capacity, the resize step keeps the size and
\* every key retrievable with its value, and after the put every key other
\* than the one put is still retrievable with the value it had.
C2_ResizeKeepsEntries ==
    [][(mlast'.op = "put" /\ map'.capacity # map.capacity) =>
          LET r == Hashmap_resize(map, heap)
          IN /\ r.map.size = map.size
             /\ \A k \in Keys : Lookup(r.map, r.heap, k) = Lookup(map, heap, k)
             /\ map'.capacity = 2 * map.capacity
             /\ \A k \in Keys \ {mlast'.key} :
                    Lookup(map', heap', k) = Lookup(map, heap, k)]_vars

\* A put that resized a table already holding two other keys.
C2_Witness ==
    mlast.op = "put" /\ mlast.resized /\ mlast.added /\ map.size >= 3

\* C3: remove(k) of an absent key returns false and changes nothing; of a
\* present key it returns true, takes one off size, makes get(k) absent and
\* leaves every other key with its value.
C3_Remove ==
    [][mlast'.op = "remove" =>
          LET k == mlast'.key
          IN IF Lookup(map, heap, k).found
             THEN /\ mlast'.ret = TRUE
                  /\ map'.size = map.size - 1
                  /\ ~Lookup(map', heap', k).found
                  /\ \A k2 \in Keys \ {k} : Lookup(map', heap', k2) = Lookup(map, heap, k2)
             ELSE /\ mlast'.ret = FALSE
                  /\ map' = map
                  /\ heap' = heap]_vars

\* A remove that returned true and left two keys behind.
C3_Witness ==
    mlast.op = "remove" /\ mlast.ret /\ map.size >= 2

\* C4: the capacity of a constructed map is a positive power of two in
\* every reachable state.
C4_CapacityPowerOfTwo ==
    mpc = "live" => map.capacity > 0 /\ IsPowerOfTwo(map.capacity)

\* A table that was constructed with capacity 1 or 2 and has grown to 8.
C4_Witness ==
    mpc = "live" /\ mlast.op = "put" /\ mlast.resized /\ map.capacity = 8

\* C5 as stated: after every completed operation size <= capacity * 0.75.
C5_LoadFactorAsStated ==
    mpc = "live" => 4 * map.size <= 3 * map.capacity

\* C5, amended: size never exceeds capacity * 0.75 rounded up, which is
\* capacity * 0.75 itself for every capacity of at least 4.
C5_LoadFactorRoundedUp ==
    mpc = "live" =>
        /\ 4 * map.size <= 3 * map.capacity + 3
        /\ map.capacity >= 4 => 4 * map.size <= 3 * map.capacity

\* A put that filled a table of capacity 4 up to its threshold of 3.
C5_Witness ==
    mlast.op = "put" /\ mlast.added /\ map.capacity = 4 /\ map.size = 3

\* C6: hashmap_new_with_capacity(c) with c not a positive power of two ends
\* the process, and no instance exists or is operated on afterwards; with c a
\* positive power of two it returns an instance of size 0 and capacity c whose
\* c buckets are all empty.
C6_Construction ==
    /\ mlast.op = "new" =>
           IF mlast.arg > 0 /\ IsPowerOfTwo(mlast.arg)
           THEN /\ mpc = "live"
                /\ map.size = 0
                /\ map.capacity = mlast.arg
                /\ DOMAIN map.entries = 0 .. mlast.arg - 1
                /\ \A i \in 0 .. mlast.arg - 1 : map.entries[i] = NULL
                /\ DOMAIN heap = {}
           ELSE mpc = "exited"
    /\ mpc = "exited" => mlast.op = "new" /\ map.capacity = 0 /\ DOMAIN heap = {}

\* The call with capacity 10 has ended the process.
C6_Witness ==
    mpc = "exited" /\ mlast.op = "new" /\ mlast.arg = 10

\* C7: push with size = capacity doubles the capacity and then appends; with
\* size < capacity it leaves the capacity; an array constructed with
\* capacity 10 has capacity 20 and size 11 after 11 pushes.
C7_PushDoubles ==
    [][vlast'.op = "push" =>
          /\ vec.size = vec.capacity => vec'.capacity = 2 * vec.capacity
          /\ vec.size < vec.capacity => vec'.capacity = vec.capacity
          /\ vec'.size = vec.size + 1
          /\ vec'.data[vec.size] = vlast'.value
          /\ (vcount'.cap0 = 10 /\ vcount'.adds = 11) =>
                 vec'.capacity = 20 /\ vec'.size = 11]_vars

\* The eleventh push on an array constructed with capacity 10.
C7_Witness ==
    vlast.op = "push" /\ vlast.grew /\ vcount.cap0 = 10 /\ vcount.adds = 11

\* C8: 0 <= size <= capacity in every state of an array constructed with a
\* positive capacity, and no operation stores outside the buffer.
C8_SizeWithinCapacity ==
    vpc = "live" =>
        /\ 0 <= vec.size
        /\ vec.size <= vec.capacity
        /\ DOMAIN vec.data = 0 .. vec.capacity - 1
        /\ ~vlast.oob

\* An insert into a full array has grown it and shifted elements up.
C8_Witness ==
    vlast.op = "insert" /\ vlast.ret /\ vlast.grew /\ vlast.index = 0 /\ vec.size = 3

\* C9: size = (pushes + inserts that returned true) - (pops, removes and
\* remove_elements that returned true), counted since construction or the
\* last clear.
C9_SizeAccounting ==
    vpc = "live" => vec.size = vcount.adds - vcount.dels

\* A remove_element that returned true after several additions and removals.
C9_Witness ==
    /\ vlast.op = "remove_element" /\ vlast.ret
    /\ vcount.adds >= 3 /\ vcount.dels >= 2 /\ vec.size >= 1

\* C10: after push(v) on an array of size n, get(n) and last() both address
\* v and every get(i) with i < n addresses the element it did before.
C10_PushKeepsElements ==
    [][vlast'.op = "push" =>
          LET n == vec.size
          IN /\ Vector_get(vec', n) = PtrTo(n)
             /\ Deref(vec', Vector_get(vec', n)) = vlast'.value
             /\ Vector_last(vec') = PtrTo(n)
             /\ Deref(vec', Vector_last(vec')) = vlast'.value
             /\ \A i \in 0 .. n - 1 :
                    /\ Vector_get(vec', i) = PtrTo(i)
                    /\ Deref(vec', Vector_get(vec', i)) = Deref(vec, Vector_get(vec, i))]_vars

\* A push that reallocated the buffer of an array holding two elements.
C10_Witness ==
    vlast.op = "push" /\ vlast.grew /\ vec.size = 3 /\ vec.data[0] # vec.data[1]

\* The indexes a call may be given around an array: from below 0 to past
\* the capacity.
Indexes(self) == -2 .. self.capacity + 1

\* C11: get(index) returns NULL for every index outside 0 <= index < size,
\* every negative index included, and a pointer to the element at index for
\* every index inside.
C11_GetBoundsChecked ==
    vpc = "live" =>
        \A index \in Indexes(vec) :
            Vector_get(vec, index) =
                IF 0 <= index /\ index < vec.size THEN PtrTo(index) ELSE NullPtr

\* C12: set and remove with an index outside [0, size), and insert with an
\* index outside [0, size], return false and leave size, capacity and the
\* whole buffer as they were.
C12_SoftFailures ==
    [][/\ (/\ vlast'.op \in {"set", "remove"}
           /\ (vlast'.index < 0 \/ vlast'.index >= vec.size))
          => (~vlast'.ret /\ vec' = vec)
       /\ (/\ vlast'.op = "insert"
           /\ (vlast'.index < 0 \/ vlast'.index > vec.size))
          => (~vlast'.ret /\ vec' = vec)]_vars

\* An insert past the end of a full array was rejected.
C12_Witness ==
    /\ vlast.op = "insert" /\ ~vlast.ret /\ vlast.index = vec.size + 1
    /\ vec.size = vec.capacity /\ vec.size >= 2

\* C13: insert(i, v) with 0 <= i <= size returns true, adds one to size,
\* makes get(i) address v, keeps the elements below i, moves the element at
\* each j >= i to j + 1, equals push when i = size, and doubles the capacity
\* exactly when the array was full.
C13_Insert ==
    [][(vlast'.op = "insert" /\ 0 <= vlast'.index /\ vlast'.index <= vec.size) =>
          LET i == vlast'.index
          IN /\ vlast'.ret
             /\ vec'.size = vec.size + 1
             /\ Vector_get(vec', i) = PtrTo(i)
             /\ Deref(vec', Vector_get(vec', i)) = vlast'.value
             /\ \A j \in 0 .. i - 1 : vec'.data[j] = vec.data[j]
             /\ \A j \in i .. vec.size - 1 : vec'.data[j + 1] = vec.data[j]
             /\ i = vec.size => vec' = Vector_push(vec, vlast'.value).vec
             /\ vec'.capacity = IF vec.size = vec.capacity
                                THEN 2 * vec.capacity ELSE vec.capacity]_vars

\* An insert between two different elements of a full array.
C13_Witness ==
    /\ vlast.op = "insert" /\ vlast.ret /\ vlast.grew /\ vlast.index = 1
    /\ vec.size = 3 /\ vec.data[0] # vec.data[2]

\* C14: remove(i) with 0 <= i < size returns true, takes one off size, keeps
\* the elements below i, moves the element at each j > i to j - 1, so that
\* get(i) then addresses what was at i + 1 or is NULL when i was the last
\* index, and leaves the capacity.
C14_Remove ==
    [][(vlast'.op = "remove" /\ 0 <= vlast'.index /\ vlast'.index < vec.size) =>
          LET i == vlast'.index
          IN /\ vlast'.ret
             /\ vec'.size = vec.size - 1
             /\ \A j \in 0 .. i - 1 : vec'.data[j] = vec.data[j]
             /\ \A j \in i + 1 .. vec.size - 1 : vec'.data[j - 1] = vec.data[j]
             /\ IF i = vec.size - 1
                THEN Vector_get(vec', i) = NullPtr
                ELSE /\ Vector_get(vec', i) = PtrTo(i)
                     /\ Deref(vec', Vector_get(vec', i)) = vec.data[i + 1]
             /\ vec'.capacity = vec.capacity]_vars

\* A remove of the first of three elements, the other two being different.
C14_Witness ==
    /\ vlast.op = "remove" /\ vlast.ret /\ vlast.index = 0
    /\ vec.size = 2 /\ vec.data[0] # vec.data[1]

\* C15: pop on an empty array returns false and changes nothing; on a
\* non-empty array it returns true, takes one off size and leaves the
\* capacity and the buffer.
C15_Pop ==
    [][vlast'.op = "pop" =>
          IF vec.size = 0
          THEN ~vlast'.ret /\ vec' = vec
          ELSE /\ vlast'.ret
               /\ vec'.size = vec.size - 1
               /\ vec'.capacity = vec.capacity
               /\ vec'.data = vec.data]_vars

\* A pop found the array empty after its only element had been popped.
C15_Witness ==
    vlast.op = "pop" /\ ~vlast.ret /\ vec.size = 0 /\ vec.data[0] # Uninit

\* C16: index_of(v) is the smallest index in [0, size) whose element equals
\* v and -1 when there is none, whatever lies in the buffer from size on;
\* contains(v) is true exactly when index_of(v) is not -1.
C16_IndexOf ==
    vpc = "live" =>
        \A v \in Values :
            LET matches == {i \in 0 .. vec.size - 1 : Vector_equals(vec.data[i], v)}
                r == Vector_index_of(vec, v)
            IN /\ IF matches = {}
                  THEN r = -1
                  ELSE r \in matches /\ \A i \in matches : r <= i
               /\ Vector_contains(vec, v) = (r # -1)
               /\ Vector_contains(vec, v) = (matches # {})

\* One value is stored twice, the other lies only in the buffer past size.
C16_Witness ==
    /\ vpc = "live" /\ vec.size = 2 /\ vec.capacity > 2
    /\ vec.data[0] = vec.data[1]
    /\ vec.data[2] \in Values /\ vec.data[2] # vec.data[0]
    /\ Vector_index_of(vec, vec.data[2]) = -1

\* C17: clear sets size to 0 and leaves the capacity, after it get(i) is
\* NULL for every i >= 0, and a push(v) that follows gives size 1 and makes
\* get(0) address v.
C17_Clear ==
    [][/\ vlast'.op = "clear" =>
             /\ vec'.size = 0
             /\ vec'.capacity = vec.capacity
             /\ \A i \in 0 .. vec.capacity + 1 : Vector_get(vec', i) = NullPtr
       /\ (vlast.op = "clear" /\ vlast'.op = "push") =>
             /\ vec'.size = 1
             /\ vec'.capacity = vec.capacity
             /\ Vector_get(vec', 0) = PtrTo(0)
             /\ Deref(vec', Vector_get(vec', 0)) = vlast'.value]_vars

\* A clear of four elements in a buffer that had grown from capacity 3 to 6.
C17_Witness ==
    /\ vlast.op = "clear" /\ vlast.index = 4
    /\ vec.size = 0 /\ vec.capacity = 6 /\ vcount.cap0 = 3

\* C18: clear leaves every bucket empty and size 0 with the capacity it
\* found, releases every entry, makes get(k) absent for every key, and a
\* put(k, v) that follows gives size 1 and makes get(k) return v.
C18_MapClear ==
    [][/\ mlast'.op = "clear" =>
             /\ map'.size = 0
             /\ map'.capacity = map.capacity
             /\ IsPowerOfTwo(map'.capacity)
             /\ DOMAIN map'.entries = 0 .. map.capacity - 1
             /\ \A i \in 0 .. map.capacity - 1 : map'.entries[i] = NULL
             /\ DOMAIN heap' = {}
             /\ \A k \in Keys : ~Lookup(map', heap', k).found
       /\ (mlast.op = "clear" /\ mlast'.op = "put") =>
             /\ map'.size = 1
             /\ Lookup(map', heap', mlast'.key) = [found |-> TRUE, value |-> mlast'.value]
             /\ \A k \in Keys \ {mlast'.key} : ~Lookup(map', heap', k).found]_vars

\* A clear of three entries, two of them chained in one bucket.
C18_Witness ==
    mlast.op = "clear" /\ mlast.arg = 3 /\ map.size = 0 /\ map.capacity = 4

\* The iterator's last call was next(): it has yielded something or has ended.
AfterNext(iter) == iter.live /\ (iter.ret \/ iter.done)

\* C19: on an array of size n that is only traversed, next() returns true on
\* each of its first n calls and false on every later one, and after the k-th
\* true current() addresses the element at index k - 1.
C19_VecIteratorCount ==
    [][AfterNext(vit') =>
          LET k == Len(vit.seen)
          IN /\ vit'.ret = (k < vec.size)
             /\ vit'.ret =>
                    /\ vit'.it.index = k
                    /\ Vector_iterator_current(vec', vit'.it) = PtrTo(k)
                    /\ Deref(vec', Vector_iterator_current(vec', vit'.it)) = vec.data[k]
                    /\ vit'.seen = Append(vit.seen, PtrTo(k))
             /\ ~vit'.ret => vit'.seen = vit.seen /\ k = vec.size]_vars

\* A traversal of three elements has ended, with a stale slot past the size.
C19_Witness ==
    /\ vit.done /\ ~vit.ret /\ Len(vit.seen) = 3 /\ vec.size = 3
    /\ vec.capacity > 3 /\ vec.data[3] # Uninit

\* The entries a map holds, as key-value pairs.
Entries(self, h) ==
    {[key |-> k, value |-> Lookup(self, h, k).value] : k \in {x \in Keys : Lookup(self, h, x).found}}

\* C20: on a map of size n that is only traversed, next() returns true on
\* each of its first n calls and false on every later one, each true exposes
\* an entry of the map not exposed before, and when next() has returned false
\* the entries exposed are exactly the map's entries.
C20_MapIteratorCount ==
    [][AfterNext(mit') =>
          LET k == Len(mit.seen)
              yielded == {mit'.seen[j] : j \in 1 .. Len(mit'.seen)}
          IN /\ mit'.ret = (k < map.size)
             /\ mit'.ret =>
                    /\ Len(mit'.seen) = k + 1
                    /\ mit'.seen[k + 1] \in Entries(map, heap)
                    /\ \A j \in 1 .. k : mit'.seen[j] # mit'.seen[k + 1]
             /\ ~mit'.ret =>
                    /\ mit'.seen = mit.seen
                    /\ yielded = Entries(map, heap)
                    /\ Cardinality(yielded) = map.size]_vars

\* A traversal has ended over a two-entry chain in bucket 0, two empty
\* buckets and an entry in the last bucket.
C20_Witness ==
    /\ mit.done /\ ~mit.ret /\ Len(mit.seen) = 3
    /\ map.capacity = 4 /\ map.size = 3
    /\ map.entries[0] # NULL /\ heap[map.entries[0]].next # NULL
    /\ map.entries[1] = NULL /\ map.entries[2] = NULL /\ map.entries[3] # NULL

\* The text a stream holds: its writes, joined.
RECURSIVE Text(_)
Text(out) == IF out = <<>> THEN "" ELSE out[1] \o Text(Tail(out))

\* The writes of out that are the separator.
Separators(out) == {j \in 1 .. Len(out) : out[j] = ", "}

\* C21: display writes "[", the formatted elements 0..size-1 in index order
\* with ", " between consecutive elements only, then "]"; an empty array
\* gives "[]" and the array 10, 20, 30 gives "[10, 20, 30]".
C21_VecDisplay ==
    vlast.op = "display" =>
        LET n == vec.size
        IN /\ Len(stream) = 2 + n + (IF n > 0 THEN n - 1 ELSE 0)
           /\ stream[1] = "["
           /\ stream[Len(stream)] = "]"
           /\ \A i \in 0 .. n - 1 : stream[2 + 2 * i] = FormatInt(vec.data[i])
           /\ Separators(stream) = {3 + 2 * i : i \in 0 .. n - 2}
           /\ n = 0 => Text(stream) = "[]"
           /\ (n = 1 /\ vec.data[0] = -7) => Text(stream) = "[-7]"
           /\ (n = 3 /\ vec.data[0] = 10 /\ vec.data[1] = 20 /\ vec.data[2] = 30) =>
                  Text(stream) = "[10, 20, 30]"

\* The default array after push 10, 20, 30 has been displayed.
C21_Witness ==
    /\ vlast.op = "display" /\ vcount.cap0 = 10 /\ vec.size = 3
    /\ vec.data[0] = 10 /\ vec.data[1] = 20 /\ vec.data[2] = 30

\* C22: display writes "{", one key, ": ", value triple for each stored
\* entry, each entry once, with ", " between consecutive pairs only, then
\* "}"; an empty map gives "{}".
C22_MapDisplay ==
    mlast.op = "display" =>
        LET n == map.size
        IN /\ Len(stream) = 2 + 3 * n + (IF n > 0 THEN n - 1 ELSE 0)
           /\ stream[1] = "{"
           /\ stream[Len(stream)] = "}"
           /\ \A j \in 0 .. n - 1 : stream[3 + 4 * j] = ": "
           /\ Separators(stream) = {5 + 4 * j : j \in 0 .. n - 2}
           /\ {<<stream[2 + 4 * j], stream[4 + 4 * j]>> : j \in 0 .. n - 1}
                  = {<<FormatInt64(e.key), FormatInt(e.value)>> : e \in Entries(map, heap)}
           /\ \A j, k \in 0 .. n - 1 : stream[2 + 4 * j] = stream[2 + 4 * k] => j = k
           /\ n = 0 => Text(stream) = "{}"
           /\ (n = 1 /\ Lookup(map, heap, <<1, 1>>) = [found |-> TRUE, value |-> 2]) =>
                  Text(stream) = "{4294967297: 2}"
           /\ (n = 2 /\ map.capacity = 16 /\ Lookup(map, heap, <<8, 0>>).found
                     /\ Lookup(map, heap, <<-1, 0>>).found) =>
                  Text(stream) = "{8: " \o FormatInt(Lookup(map, heap, <<8, 0>>).value)
                                 \o ", 4294967295: "
                                 \o FormatInt(Lookup(map, heap, <<-1, 0>>).value) \o "}"

\* A map of capacity 4 with three entries, two of them in one chain, has
\* been displayed.
C22_Witness ==
    /\ mlast.op = "display" /\ map.size = 3 /\ map.capacity = 4
    /\ Len(stream) = 13

\* Two different pointers to the same bytes.
SameText(a, b) == a # b /\ Memory[a] = Memory[b]

\* Lookup, contains and remove of key b answer as they do for key a.
AnswersAlike(self, h, a, b) ==
    /\ Lookup(self, h, b) = Lookup(self, h, a)
    /\ Hashmap_contains(self, h, b) = Hashmap_contains(self, h, a)
    /\ Hashmap_remove(self, h, b) = Hashmap_remove(self, h, a)

\* C23: the default equality of text compares the bytes pointed to: for two
\* different pointers a and b to the same bytes, an array holding a answers
\* index_of(b) with a's index and contains(b) with true, and a map holding
\* key a answers get(b), contains(b) and remove(b) as it does for a.
C23_TextEquality ==
    \A a, b \in TextPointers :
        SameText(a, b) =>
            /\ (vpc = "live" /\ Vector_contains(vec, a)) =>
                   /\ Vector_index_of(vec, b) = Vector_index_of(vec, a)
                   /\ Vector_contains(vec, b)
            /\ (mpc = "live" /\ Hashmap_contains(map, heap, a)) =>
                   AnswersAlike(map, heap, a, b)

\* The part of C23 that the map keeps: keys are compared by strcmp.
C23_MapTextEquality ==
    mpc = "live" =>
        \A a, b \in TextPointers : SameText(a, b) => AnswersAlike(map, heap, a, b)

\* A map holds a key whose bytes are also found at another address, in a
\* chain with a key of the same hash.
C23_MapWitness ==
    /\ mpc = "live" /\ map.size = 3
    /\ \E a, b \in TextPointers : SameText(a, b) /\ Hashmap_contains(map, heap, a)
    /\ Hashmap_contains(map, heap, 103) /\ Hashmap_contains(map, heap, 104)

\* C24: for every key type, keys that the default equality calls equal get
\* the same default hash.
C24_HashConsistent == hlast.equals => hlast.hash1 = hlast.hash2

\* The part of C24 that holds: the key types of at least the width of int
\* that are no floating-point types.
C24_WideKeysConsistent ==
    hlast.K \in IntTypes \cup LongTypes \cup LongLongTypes \cup {"const char*", "void*"} =>
        (hlast.equals => hlast.hash1 = hlast.hash2)

\* Two different text pointers, or two equal wide keys, went through hash and equals.
C24_WideKeysWitness ==
    /\ hlast.K = "const char*" /\ hlast.key1 = 101 /\ hlast.key2 = 102
    /\ hlast.equals /\ hlast.hash1 = 3105

\* The map and heap a put works on once its growth check is done.
AfterGrowthCheck(self, h) ==
    IF NeedsResize(self) THEN Hashmap_resize(self, h) ELSE [map |-> self, heap |-> h]

\* C25: a resize allocates and frees no entry and leaves each entry's key,
\* value and cached hash; the pointer get(k) returned stays the address of
\* k's entry, with the value it had, across every put and remove of another
\* key.
C25_EntryStability ==
    [][mlast'.op \in {"put", "remove"} =>
          /\ mlast'.op = "put" =>
                 LET r == AfterGrowthCheck(map, heap)
                 IN /\ DOMAIN r.heap = DOMAIN heap
                    /\ \A e \in DOMAIN heap :
                           /\ r.heap[e].key = heap[e].key
                           /\ r.heap[e].value = heap[e].value
                           /\ r.heap[e].hash = heap[e].hash
          /\ \A k \in Keys \ {mlast'.key} :
                 LET borrowed == Hashmap_get(map, heap, k)
                 IN borrowed # NULL =>
                        /\ Hashmap_get(map', heap', k) = borrowed
                        /\ borrowed \in DOMAIN heap'
                        /\ heap'[borrowed].key = k
                        /\ heap'[borrowed].value = heap[borrowed].value]_vars

\* A put of a third key resized a table whose two entries sat in cells 1 and 2.
C25_Witness ==
    /\ mlast.op = "put" /\ mlast.resized /\ mlast.added
    /\ DOMAIN heap = {1, 2, 3}
    /\ heap[3].key = mlast.key

\* C26: every operation on a constructed array leaves the capacity or
\* doubles it; it is doubled only by a push or a successful insert called
\* with size = capacity; pop, remove, remove_element, set and clear leave it.
C26_CapacityOnlyDoubles ==
    [][vpc = "live" =>
          /\ vec'.capacity \in {vec.capacity, 2 * vec.capacity}
          /\ vec'.capacity # vec.capacity =>
                 /\ vlast'.op \in {"push", "insert"}
                 /\ vlast'.ret
                 /\ vec.size = vec.capacity
          /\ vlast'.op \in {"pop", "remove", "remove_element", "set", "clear"} =>
                 vec'.capacity = vec.capacity]_vars

\* An array grown twice, by a push or an insert, and popped since.
C26_Witness ==
    /\ vlast.op = "pop" /\ vlast.ret
    /\ vcount.cap0 = 1 /\ vec.capacity = 4 /\ vec.size = 1

\* The cells linked from entry on; a link to a cell that is not allocated
\* ends the chain and counts as linked.
RECURSIVE ChainCells(_, _)
ChainCells(h, entry) ==
    IF entry = NULL THEN {}
    ELSE IF entry \notin DOMAIN h THEN {entry}
    ELSE {entry} \cup ChainCells(h, h[entry].next)

\* The cells linked in the bucket chains of the map.
Linked(self, h) == UNION {ChainCells(h, self.entries[i]) : i \in 0 .. self.capacity - 1}

\* The calls free(entry) that the step to the next state makes, in order.
Released ==
    CASE mlast'.op = "remove" ->
             LET hash == Fns_hash(map, mlast'.key)
                 index == IntAnd(hash, map.capacity - 1)
                 s == RemoveScan(map, heap, map.entries[index], NULL, hash, mlast'.key)
             IN IF s.entry = NULL THEN <<>> ELSE <<s.entry>>
      [] mlast'.op \in {"clear", "free"} -> FreeWalk(map, heap, 0, map.entries[0], <<>>)
      [] OTHER -> <<>>

\* C27: each step releases cells that were allocated and not released yet,
\* none of them twice, and none that the map still links afterwards; the
\* cells put allocated and no step released are exactly the cells linked in
\* the map, and after clear or free there is none.
C27_ReleaseOnce ==
    [][mpc = "live" =>
          LET freed == Released
              cells == {freed[i] : i \in DOMAIN freed}
          IN /\ \A i, j \in DOMAIN freed : i # j => freed[i] # freed[j]
             /\ cells \subseteq DOMAIN heap
             /\ (DOMAIN heap) \ (DOMAIN heap') = cells
             /\ cells \cap Linked(map', heap') = {}
             /\ Linked(map', heap') = DOMAIN heap'
             /\ mlast'.op = "remove" => (mlast'.ret <=> Len(freed) = 1)
             /\ mlast'.op \in {"clear", "free"} => DOMAIN heap' = {} /\ Len(freed) = map.size
             /\ mlast'.op = "put" => freed = <<>>]_vars

\* free released the three entries of a map.
C27_Witness ==
    /\ mpc = "freed" /\ mlast.op = "free" /\ mlast.arg = 3
    /\ DOMAIN heap = {}

\* C28: right after vector_new the array has size 0 and capacity 10; right
\* after hashmap_new the map has size 0, capacity 16 and 16 buckets, each
\* NULL, and no entry is allocated.
C28_DefaultConstruction ==
    /\ (vpc = "live" /\ vlast.op = "new") =>
           /\ vec.size = 0
           /\ vec.capacity = 10
           /\ DOMAIN vec.data = 0 .. 9
    /\ (mpc = "live" /\ mlast.op = "new") =>
           /\ map.size = 0
           /\ map.capacity = 16
           /\ DOMAIN map.entries = 0 .. 15
           /\ \A i \in 0 .. 15 : map.entries[i] = NULL
           /\ DOMAIN heap = {}

\* Both containers have just been constructed with new().
C28_Witness ==
    /\ vpc = "live" /\ vlast.op = "new" /\ vlast.ret
    /\ mpc = "live" /\ mlast.op = "new" /\ mlast.ret

\* C29: a put called with size >= capacity * 0.75 doubles the capacity once,
\* and the resize it runs before linking the new entry allocates nothing and
\* leaves every entry in the chain of bucket (cached hash AND (new capacity
\* - 1)); a put called with size < capacity * 0.75 leaves the capacity, and
\* so do remove and clear.
C29_PutGrowthCheck ==
    [][mpc = "live" =>
          /\ (mlast'.op = "put" /\ 4 * map.size >= 3 * map.capacity) =>
                 LET r == Hashmap_resize(map, heap)
                 IN /\ map'.capacity = 2 * map.capacity
                    /\ mlast'.resized
                    /\ r.map.capacity = 2 * map.capacity
                    /\ DOMAIN r.heap = DOMAIN heap
                    /\ \A e \in DOMAIN heap :
                           /\ r.heap[e].hash = heap[e].hash
                           /\ e \in ChainCells(r.heap,
                                               r.map.entries[IntAnd(heap[e].hash,
                                                                    2 * map.capacity - 1)])
                    /\ \A e \in DOMAIN heap :
                           e \in ChainCells(heap', map'.entries[IntAnd(heap[e].hash,
                                                                       map'.capacity - 1)])
          /\ (mlast'.op = "put" /\ 4 * map.size < 3 * map.capacity) =>
                 map'.capacity = map.capacity /\ ~mlast'.resized
          /\ mlast'.op \in {"remove", "clear"} => map'.capacity = map.capacity]_vars

\* A put of another key grew a table of capacity 2 to capacity 4, and the
\* entry of key 2^32 - 1 (hash -1) moved from bucket 1 to bucket 3.
C29_Witness ==
    /\ mlast.op = "put" /\ mlast.resized /\ map.capacity = 4
    /\ mlast.key # <<-1, 0>>
    /\ map.entries[3] # NULL /\ heap[map.entries[3]].key = <<-1, 0>>
    /\ map.entries[0] # NULL

\* The step is a put of a key the map holds: no cell is allocated or freed,
\* size is left, and each entry keeps its key and cached hash and, but for
\* the entry of the key put, its value.
UpdateKeepsEntries ==
    /\ map'.size = map.size
    /\ ~mlast'.added
    /\ DOMAIN heap' = DOMAIN heap
    /\ \A e \in DOMAIN heap :
           /\ heap'[e].key = heap[e].key
           /\ heap'[e].hash = heap[e].hash
           /\ heap'[e].value = IF heap[e].key = mlast'.key THEN mlast'.value ELSE heap[e].value

\* The step leaves the capacity, the bucket heads and every chain link.
KeepsBuckets ==
    /\ map'.capacity = map.capacity
    /\ map'.entries = map.entries
    /\ \A e \in DOMAIN heap : heap'[e].next = heap[e].next

\* C30: put(k, v) of a key the map holds changes only that entry's value:
\* size, capacity, the allocated entries and every bucket and chain position
\* are left, also when size >= capacity * 0.75.
C30_UpdateInPlace ==
    [][(mlast'.op = "put" /\ Hashmap_contains(map, heap, mlast'.key)) =>
          UpdateKeepsEntries /\ KeepsBuckets]_vars

\* C30, amended: put(k, v) of a key the map holds allocates nothing, leaves
\* size and changes only that entry's value; with size < capacity * 0.75 it
\* leaves the capacity and every bucket and chain position, and with size >=
\* capacity * 0.75 it doubles the capacity and relinks every entry into
\* bucket (cached hash AND (new capacity - 1)).
C30_UpdateResizesAtThreshold ==
    [][(mlast'.op = "put" /\ Hashmap_contains(map, heap, mlast'.key)) =>
          /\ UpdateKeepsEntries
          /\ 4 * map.size < 3 * map.capacity => KeepsBuckets
          /\ 4 * map.size >= 3 * map.capacity =>
                 /\ map'.capacity = 2 * map.capacity
                 /\ \A e \in DOMAIN heap :
                        e \in ChainCells(heap', map'.entries[IntAnd(heap[e].hash,
                                                                    map'.capacity - 1)])]_vars

\* A put of a key already held found a table of capacity 4 at its threshold
\* of three entries and doubled it.
C30_Witness ==
    /\ mlast.op = "put" /\ ~mlast.added /\ mlast.resized
    /\ map.size = 3 /\ map.capacity = 8

\* Every allocated entry caches the hash of its key and is linked in the
\* chain of bucket (hash AND (capacity - 1)), a number in [0, capacity).
Placed(self, h) ==
    \A e \in DOMAIN h :
        LET index == IntAnd(h[e].hash, self.capacity - 1)
        IN /\ h[e].hash = Fns_hash(self, h[e].key)
           /\ index \in 0 .. self.capacity - 1
           /\ e \in ChainCells(h, self.entries[index])
           /\ \A i \in 0 .. self.capacity - 1 :
                  e \in ChainCells(h, self.entries[i]) => i = index

\* C31: in every state of a live map each entry caches hash(key) and is
\* linked in bucket (hash AND (capacity - 1)) and in no other, also for a
\* negative hash; this holds before a put's resize, between the resize and
\* the insertion, and after the put.
C31_BucketPlacement ==
    [][mpc' = "live" =>
          /\ Placed(map', heap')
          /\ (mpc = "live" /\ mlast'.op = "put") =>
                 LET r == AfterGrowthCheck(map, heap)
                 IN Placed(map, heap) /\ Placed(r.map, r.heap)]_vars

\* The entry of key 2^32 - 1 (hash -1) sits in the last bucket of a table
\* that a put of key 8 doubled to capacity 8.
C31_Witness ==
    /\ mlast.op = "put" /\ mlast.resized /\ mlast.key = <<8, 0>>
    /\ map.capacity = 8
    /\ map.entries[7] # NULL /\ heap[map.entries[7]].hash = -1
    /\ map.entries[0] # NULL

\* The cells met by following next from entry, for at most fuel steps; a
\* link to a cell that is not allocated is met and ends the walk.
RECURSIVE ChainWalk(_, _, _)
ChainWalk(h, entry, fuel) ==
    IF entry = NULL \/ fuel = 0 THEN <<>>
    ELSE IF entry \notin DOMAIN h THEN <<entry>>
    ELSE <<entry>> \o ChainWalk(h, h[entry].next, fuel - 1)

\* The chains of buckets i, i + 1, ... one after the other, each walked for
\* at most one step more than there are allocated cells.
RECURSIVE BucketWalk(_, _, _)
BucketWalk(self, h, i) ==
    IF i >= self.capacity THEN <<>>
    ELSE ChainWalk(h, self.entries[i], Cardinality(DOMAIN h) + 1) \o BucketWalk(self, h, i + 1)

\* C32: in every state of a live map, size is the number of entries linked
\* over all bucket chains; every chain ends (a walk never meets more cells
\* than are allocated) and no entry is met twice, in one chain or in two.
C32_SizeCountsLinkedEntries ==
    mpc = "live" =>
        LET walk == BucketWalk(map, heap, 0)
        IN /\ Len(walk) = map.size
           /\ \A i \in DOMAIN walk : walk[i] \in DOMAIN heap
           /\ \A i, j \in DOMAIN walk : i # j => walk[i] # walk[j]
           /\ \A i \in 0 .. map.capacity - 1 :
                  Len(ChainWalk(heap, map.entries[i], Cardinality(DOMAIN heap) + 1))
                      <= Cardinality(DOMAIN heap)

\* A remove freed cell 2 and left cells 1 and 3 linked in one chain.
C32_Witness ==
    /\ mlast.op = "remove" /\ mlast.ret /\ map.size = 2
    /\ \E i \in 0 .. map.capacity - 1 :
           /\ Len(ChainWalk(heap, map.entries[i], 3)) = 2
           /\ DOMAIN heap = {1, 3}

\* C33: in every state of a live map no two linked entries have keys that
\* the map's equality calls equal.
C33_KeyUniqueness ==
    mpc = "live" =>
        \A e1, e2 \in Linked(map, heap) :
            e1 # e2 => ~Fns_equals(map, heap[e1].key, heap[e2].key)

\* A put resized the table and then found its key in a chain with a
\* different key of the same hash.
C33_Witness ==
    /\ mlast.op = "put" /\ ~mlast.added /\ mlast.resized /\ mlast.key = <<1, 1>>
    /\ \E e \in DOMAIN heap :
           /\ heap[e].key = <<1, 1>> /\ heap[e].next # NULL
           /\ heap[heap[e].next].key = <<0, 0>>

\* The abstract finite map a hash table stands for: the key-value pairs of
\* its linked entries.
Abstract(self, h) == {[key |-> h[e].key, value |-> h[e].value] : e \in Linked(self, h)}

\* The operations of the abstract map.
AbstractContains(am, key) == \E p \in am : p.key = key
AbstractLookup(am, key) ==
    IF AbstractContains(am, key)
    THEN [found |-> TRUE, value |-> (CHOOSE p \in am : p.key = key).value]
    ELSE [found |-> FALSE, value |-> 0]
AbstractRemove(am, key) == {p \in am : p.key # key}
AbstractPut(am, key, value) == AbstractRemove(am, key) \cup {[key |-> key, value |-> value]}

\* C34: each step of the hash table is the same step of the abstract map
\* (new and clear give the empty map, put overwrites or adds, remove deletes
\* and returns whether the key was a member), and after every step size is
\* the abstract map's cardinality and get and contains of every key are the
\* abstract lookup and membership.
C34_MapRefinement ==
    [][mpc' = "live" =>
          LET before == IF mpc = "live" THEN Abstract(map, heap) ELSE {}
              after == Abstract(map', heap')
          IN /\ mlast'.op \in {"new", "clear"} => after = {}
             /\ mlast'.op = "put" => after = AbstractPut(before, mlast'.key, mlast'.value)
             /\ mlast'.op = "remove" =>
                    /\ after = AbstractRemove(before, mlast'.key)
                    /\ mlast'.ret = AbstractContains(before, mlast'.key)
             /\ map'.size = Cardinality(after)
             /\ \A k \in Keys :
                    /\ Lookup(map', heap', k) = AbstractLookup(after, k)
                    /\ Hashmap_contains(map', heap', k) = AbstractContains(after, k)]_vars

\* A remove deleted one of the three keys of a table of capacity 4, and a
\* key with the same hash as the removed one stays.
C34_Witness ==
    /\ mlast.op = "remove" /\ mlast.ret /\ mlast.key = <<0, 0>>
    /\ map.size = 2 /\ map.capacity = 4
    /\ Hashmap_contains(map, heap, <<1, 1>>)

\* C35: the k-th entry an iterator yields on a map that is only traversed is
\* the k-th entry met by walking the buckets in ascending index and each
\* chain from its head, and the k-th key and value that display writes are
\* the formatted key and value of that entry.
C35_TraversalOrder ==
    [][(AfterNext(mit') /\ mit'.ret) =>
          LET k == Len(mit'.seen)
              walk == BucketWalk(map, heap, 0)
              out == Hashmap_display(map, heap)
          IN /\ k <= Len(walk)
             /\ mit'.it.entry = walk[k]
             /\ mit'.seen[k] = [key |-> heap[walk[k]].key, value |-> heap[walk[k]].value]
             /\ IntAnd(heap[walk[k]].hash, map.capacity - 1) = mit'.it.index - 1
             /\ k > 1 =>
                    \/ heap[walk[k - 1]].next = walk[k]
                    \/ /\ heap[walk[k - 1]].next = NULL
                       /\ mit.it.index < mit'.it.index
             /\ out[2 + 4 * (k - 1)] = FormatInt64(mit'.seen[k].key)
             /\ out[4 + 4 * (k - 1)] = FormatInt(mit'.seen[k].value)]_vars

\* An iterator has yielded the head of bucket 0, the entry chained behind it
\* and then the entry of bucket 3.
C35_Witness ==
    /\ mit.live /\ mit.ret /\ Len(mit.seen) = 3
    /\ map.capacity = 4
    /\ mit.it.index = 4 /\ mit.it.entry = map.entries[3]
    /\ map.entries[0] # NULL /\ heap[map.entries[0]].next # NULL
    /\ mit.seen[2].key = heap[heap[map.entries[0]].next].key

\* No value occurs twice in the sequence.
NoRepeats(seq) == \A i, j \in DOMAIN seq : i # j => seq[i] # seq[j]

\* C36: on a container that is only traversed, an iterator whose next() has
\* returned false is left as it is by every later next(), which returns
\* false again; next() never lowers the array cursor's index nor the map
\* cursor's bucket index; and no element or entry is yielded twice.
C36_ForwardOnly ==
    [][/\ (vit'.live /\ vit'.done) =>
              LET r == Vector_iterator_next(vec', vit'.it)
              IN ~r.ret /\ r.it = vit'.it
       /\ (mit'.live /\ mit'.done) =>
              LET r == Hashmap_iterator_next(map', heap', mit'.it)
              IN ~r.ret /\ r.it = mit'.it
       /\ (vit.live /\ AfterNext(vit')) => vit'.it.index >= vit.it.index
       /\ (mit.live /\ AfterNext(mit')) => mit'.it.index >= mit.it.index
       /\ NoRepeats(vit'.seen)
       /\ NoRepeats(mit'.seen)
       /\ \A i, j \in DOMAIN mit'.seen : i # j => mit'.seen[i].key # mit'.seen[j].key]_vars

\* Both traversals have ended after three yields; the map's ended on the
\* entry of the last bucket, which the cursor still addresses.
C36_Witness ==
    /\ vit.live /\ vit.done /\ Len(vit.seen) = 3
    /\ mit.live /\ mit.done /\ Len(mit.seen) = 3
    /\ mit.it.entry # NULL /\ mit.it.index = map.capacity

\* C37: remove_element(v) on an array with an element equal to v returns
\* true, removes the first such element (the one at index_of(v)), moves each
\* later element, later duplicates included, down by one and takes one off
\* size; with no element equal to v it returns false and leaves size,
\* capacity and every element.
C37_RemoveElement ==
    [][vlast'.op = "remove_element" =>
          LET v == vlast'.value
              found == {i \in 0 .. vec.size - 1 : vec.data[i] = v}
          IN IF found = {}
             THEN /\ ~vlast'.ret
                  /\ vec' = vec
                  /\ Vector_index_of(vec, v) = -1
             ELSE LET first == CHOOSE i \in found : \A j \in found : i <= j
                  IN /\ vlast'.ret
                     /\ Vector_index_of(vec, v) = first
                     /\ vec'.size = vec.size - 1
                     /\ vec'.capacity = vec.capacity
                     /\ \A j \in 0 .. first - 1 : vec'.data[j] = vec.data[j]
                     /\ \A j \in first + 1 .. vec.size - 1 : vec'.data[j - 1] = vec.data[j]
                     /\ Cardinality({i \in 0 .. vec'.size - 1 : vec'.data[i] = v})
                            = Cardinality(found) - 1]_vars

\* remove_element took the first of two equal elements that had a different
\* element between them, and the second is now the last element.
C37_Witness ==
    /\ vlast.op = "remove_element" /\ vlast.ret
    /\ vec.size = 2 /\ vec.data[1] = vlast.value /\ vec.data[0] # vlast.value
    /\ vec.data[2] = vlast.value

\* C38: in every state of a live map and for every key k, get(k) finds an
\* entry exactly when remove(k) would return true and exactly when put(k, v)
\* would update rather than add, and then the entry remove(k) frees and the
\* entry put(k, v) stores v in are the entry get(k) addresses.
C38_LookupAgreement ==
    mpc = "live" =>
        \A k \in Keys :
            LET found == Hashmap_get(map, heap, k)
                removed == Hashmap_remove(map, heap, k)
                grown == AfterGrowthCheck(map, heap)
                updates == ~PutAllocates(grown.map, grown.heap, k)
            IN /\ Hashmap_contains(map, heap, k) = (found # NULL)
               /\ removed.ret = (found # NULL)
               /\ updates = (found # NULL)
               /\ found # NULL =>
                      /\ heap[found].key = k
                      /\ (DOMAIN heap) \ (DOMAIN removed.heap) = {found}
                      /\ \A v \in MapValues :
                             LET put == Hashmap_put(map, heap, k, v)
                             IN /\ ~put.added
                                /\ put.heap[found].value = v
                                /\ \A e \in (DOMAIN heap) \ {found} :
                                       put.heap[e].value = heap[e].value
               /\ found = NULL => removed.heap = heap /\ removed.map = map

\* The map holds two keys of one hash in one chain and a third key, and
\* lacks the fourth.
C38_Witness ==
    /\ mpc = "live" /\ map.size = 3
    /\ Hashmap_get(map, heap, <<0, 0>>) # NULL
    /\ Hashmap_get(map, heap, <<1, 1>>) # NULL
    /\ heap[Hashmap_get(map, heap, <<1, 1>>)].next = Hashmap_get(map, heap, <<0, 0>>)
    /\ Hashmap_get(map, heap, <<8, 0>>) = NULL

\* hash = hash * 31 + byte folded over the bytes from hash on, modulo 2^32.
RECURSIVE Fold(_, _)
Fold(hash, bytes) ==
    IF bytes = <<>> THEN hash
    ELSE Fold(WrapInt((hash \div 65536) * 31, (hash % 65536) * 31 + Head(bytes)), Tail(bytes))

\* The text hash returned for key, a text of hlast, and the wrapping fold
\* over its bytes as the build's char type presents them.
IsFold(key, out) ==
    /\ ~out.trapped
    /\ out.hash = Fold(0, PromotedChars(key, hlast.K = "signed char"))
    /\ key = <<>> => out.hash = 0

\* C39: the text hash of every byte string is the fold hash = hash * 31 +
\* byte from 0 in the width of int, wrapping modulo 2^32; equal texts at
\* different addresses get equal hashes and the empty text gets 0.
C39_TextHash ==
    hlast.K \in {"signed char", "unsigned char"} =>
        /\ IsFold(hlast.key1, hlast.hash1)
        /\ IsFold(hlast.key2, hlast.hash2)
        /\ hlast.equals => hlast.hash1 = hlast.hash2

\* The part of C39 that holds: texts whose fold stays within the range of
\* int.
C39_TextHashInRange ==
    (/\ hlast.K \in {"signed char", "unsigned char"}
     /\ ~LoopOverflows(0, PromotedChars(hlast.key1, hlast.K = "signed char"))
     /\ ~LoopOverflows(0, PromotedChars(hlast.key2, hlast.K = "signed char"))) =>
        /\ IsFold(hlast.key1, hlast.hash1)
        /\ IsFold(hlast.key2, hlast.hash2)
        /\ hlast.equals => hlast.hash1 = hlast.hash2

\* Two copies of "zzzzz", the longest text of z that stays in range, were hashed.
C39_InRangeWitness ==
    /\ hlast.K = "signed char" /\ hlast.equals
    /\ hlast.key1 = <<122, 122, 122, 122, 122>>
    /\ hlast.hash1.hash = 116425210

====
